---- MODULE Spec2Model ----
(***************************************************************************)
(* A model of the core of danuhaha/telestats (package message_analyser):   *)
(* the canonical message record, the JSON and HTML export adapters, the    *)
(* persisted form, the conversation segmenter, the deterministic           *)
(* downsampler and the batched inference aggregators.                      *)
(*                                                                         *)
(* The pipeline is single-threaded and its stages share no state, so each  *)
(* stage has a specification of its own (SpecSplit, SpecSample, ...) over  *)
(* the one set of variables; the variables of the other stages stay idle.  *)
(***************************************************************************)
EXTENDS Integers, Sequences, FiniteSets, TLC

VARIABLES
    pc,          \* position of the running call: "start", "done", "raised", ...
    messages,    \* split_into_conversations: argument `messages`
    gap_minutes, \* split_into_conversations: argument `gap_minutes`
    convos,      \* split_into_conversations: the returned list of runs
    texts,       \* sample_texts / aggregators: argument `texts`
    max_n,       \* sample_texts: argument `max_n`
    sampled,     \* sample_texts: the returned list, or the exception raised
    fn,          \* aggregator called: "avg" (run_pipe_avg_scores) or "frac"
    pipe,        \* aggregators: argument `pipe`, the scoring model
    positive_labels, \* run_pipe_frac_above: argument `positive_labels`
    threshold,   \* run_pipe_frac_above: argument `threshold`, in tenths
    it,          \* batched: index of the next text the generator reads
    calls,       \* the batches the model was invoked on, in invocation order
    agg,         \* run_pipe_avg_scores: `agg`, label -> running sum
    count,       \* run_pipe_avg_scores: `count`
    pos,         \* run_pipe_frac_above: `pos`
    total,       \* run_pipe_frac_above: `total`
    result,      \* aggregators: the returned value
    fail_at,     \* aggregators: the number of the invocation on which the
                 \* model raises (0: it never raises)
    adapter,     \* which adapter runs: "json" (telegram_export) or "html"
    your_name,   \* adapters: argument `your_name`
    target_name, \* adapters: argument `target_name`
    raw,         \* one raw source record (JSON object or HTML message block)
    last_author, \* get_mymessages_from_html: `last_author`
    msg,         \* the message built from `raw`: <<m>>, or <<>> when dropped
    source,      \* adapters: what `export_path` holds
    msg_list,    \* adapters: the returned `msgs`; storage: the `msgs` stored
    origins,     \* for each element of msg_list, the <<file, record>> position
                 \* at which its raw record was encountered
    log,         \* lines passed to log_line
    stored,      \* storage: the content of the file written by store_msgs
    loaded,      \* storage: the list returned by get_msgs
    kwargs,      \* MyMessage: the arguments given to the constructor
    this,        \* MyMessage: the mapping of the constructed object
    last_op,     \* MyMessage: the last write attempted and its outcome
    writes,      \* MyMessage: the number of writes attempted
    resolved,    \* author resolvers, _coerce_text: the value returned for `raw`
    export_exists, \* main: whether args.export names an existing path
    max_per_convo, \* main: args.max_per_convo
    max_total,   \* main: args.max_total
    raise_at,    \* main: the number of the model invocation that raises
                 \* (0: no invocation raises)
    invocations, \* main: the number of model invocations made so far
    idx,         \* main: `idx`, the index of the next run of the row loop
    rows,        \* main: `rows`
    written,     \* main: the files written, in order, with their content
    plot_msgs,   \* _get_plot_data: argument `msgs`
    plot_xticks, \* _get_plot_data: `xticks`, the start offsets of the buckets
    plot_x,      \* _get_plot_data: the returned `x`
    plot_y,      \* _get_plot_data: the returned `y`
    crop,        \* _get_xticks: argument `crop`
    ticks        \* _get_xticks: the returned xticks, xticks_labels, xlabel

splitVars == <<messages, gap_minutes, convos>>

sampleVars == <<max_n, sampled>>

aggVars ==
    <<fn, pipe, positive_labels, threshold, it, calls, agg, count, pos,
      total, result, fail_at>>

recordVars == <<adapter, your_name, target_name, raw, last_author, msg>>

dirVars == <<source, msg_list, origins, log>>

storeVars == <<stored, loaded>>

adapterVars == <<recordVars, dirVars, storeVars>>

\* the variables of the stages modelled further below
msgVars == <<kwargs, this, last_op, writes>>

mainVars ==
    <<export_exists, max_per_convo, max_total, raise_at, invocations, idx,
      rows, written>>

plotVars == <<plot_msgs, plot_xticks, plot_x, plot_y>>

tickVars == <<crop, ticks>>

tailVars == <<mainVars, plotVars, tickVars>>

restVars == <<msgVars, resolved, tailVars>>

vars == <<pc, splitVars, texts, sampleVars, aggVars, adapterVars, restVars>>

None == "None"

Idle == "idle"

----------------------------------------------------------------------------
(* Generic helpers on sequences.                                           *)

RECURSIVE Concat(_)
Concat(ss) ==
    IF ss = <<>> THEN <<>> ELSE Head(ss) \o Concat(Tail(ss))

SeqsUpTo(S, n) == UNION {[1..k -> S] : k \in 0..n}

\* the value of a variable of a stage that is not running
IdleSplit == messages = Idle /\ gap_minutes = Idle /\ convos = Idle

IdleSample == texts = Idle /\ max_n = Idle /\ sampled = Idle

IdleAgg ==
    /\ fn = Idle /\ pipe = Idle /\ positive_labels = Idle /\ threshold = Idle
    /\ it = Idle /\ calls = Idle /\ agg = Idle /\ count = Idle /\ pos = Idle
    /\ total = Idle /\ result = Idle /\ fail_at = Idle

IdleRecord ==
    /\ adapter = Idle /\ your_name = Idle /\ target_name = Idle
    /\ raw = Idle /\ last_author = Idle /\ msg = Idle

IdleDir ==
    /\ source = Idle /\ msg_list = Idle /\ origins = Idle /\ log = Idle

IdleStore ==
    /\ stored = Idle /\ loaded = Idle

IdleAdapters == IdleRecord /\ IdleDir /\ IdleStore

IdleMsg ==
    /\ kwargs = Idle /\ this = Idle /\ last_op = Idle /\ writes = Idle

IdleMain ==
    /\ export_exists = Idle /\ max_per_convo = Idle /\ max_total = Idle
    /\ raise_at = Idle /\ invocations = Idle /\ idx = Idle /\ rows = Idle
    /\ written = Idle

IdlePlot ==
    /\ plot_msgs = Idle /\ plot_xticks = Idle /\ plot_x = Idle /\ plot_y = Idle

IdleTicks == crop = Idle /\ ticks = Idle

IdleTail == IdleMain /\ IdlePlot /\ IdleTicks

IdleRest == IdleMsg /\ resolved = Idle /\ IdleTail

----------------------------------------------------------------------------
(* myMessage.MyMessage                                                     *)
(*                                                                         *)
(* An optional argument (None or a value v) is the set {} or {v}.  A       *)
(* datetime is DT(s, us): s whole seconds and us microseconds; a date      *)
(* given as a string is STR(tokens).  A flag holds a Python value: True,   *)
(* False, or the empty string (which `x and y` can yield).                 *)

True == "True"

False == "False"

\* bool(v)
Truthy(v) == v \notin {False, ""}

\* a or b
PyOr(a, b) == IF Truthy(a) THEN a ELSE b

\* a and b
PyAnd(a, b) == IF Truthy(a) THEN b ELSE a

\* not a
PyNot(a) == IF Truthy(a) THEN False ELSE True

\* the Python bool of a condition
PyBool(c) == IF c THEN True ELSE False

Nothing == {}

Some(v) == {v}

The(opt) == CHOOSE v \in opt : TRUE

DT(sec, usec) == [t |-> "datetime", s |-> sec, us |-> usec, tokens |-> <<>>]

STR(toks) == [t |-> "str", s |-> 0, us |-> 0, tokens |-> toks]

LinkTexts == {"http://example.com"}

\* islink: the whole text matches the URL pattern
islink(text) == text \in LinkTexts

\* str(datetime): "YYYY-MM-DD HH:MM:SS", followed by ".ffffff" when the
\* microsecond is not 0.  The string is the sequence of these two parts.
DatetimeStr(d) == IF d.us = 0 THEN <<d.s>> ELSE <<d.s, d.us>>

\* datetime.strptime(string, "%Y-%m-%d %H:%M:%S"): ValueError ("unconverted
\* data remains") unless the string is exactly the first part.
strptime(toks) ==
    IF Len(toks) = 1
    THEN [exc |-> None, val |-> DT(toks[1], 0)]
    ELSE [exc |-> "ValueError", val |-> DT(0, 0)]

\* the arguments of MyMessage(text, date, author): every other one at its
\* default
Kw(text, date, author) ==
    [text |-> text, date |-> date, author |-> author,
     is_forwarded |-> False, document_id |-> Nothing, has_photo |-> False,
     has_voice |-> False, has_audio |-> False, has_video |-> False,
     has_sticker |-> False, is_link |-> Nothing,
     has_video_message |-> Nothing, has_video_file |-> Nothing]

\* mutant: the generic signal is never resolved to a video message
VideoMessageAsGiven(hv, hvm0, hvf) == hvm0

\* has_video_message after `if has_video and not (has_video_message or
\* has_video_file): has_video_message = True`
VideoMessage(hv, hvm0, hvf) ==
    IF Truthy(hv) /\ ~Truthy(PyOr(hvm0, hvf)) THEN True ELSE hvm0

\* MyMessage.__init__(**kw): the attributes of the new message, or the
\* exception raised
MyMessage(kw) ==
    LET hvm0   == IF kw.has_video_message = Nothing THEN False
                  ELSE The(kw.has_video_message)
        hvf    == IF kw.has_video_file = Nothing THEN False
                  ELSE The(kw.has_video_file)
        hvm    == VideoMessage(kw.has_video, hvm0, hvf)
        parsed == IF kw.date.t = "datetime"
                  THEN [exc |-> None, val |-> kw.date]
                  ELSE strptime(kw.date.tokens)
    IN  [exc |-> parsed.exc,
         val |-> [text              |-> kw.text,
                  date              |-> parsed.val,
                  author            |-> kw.author,
                  is_forwarded      |-> kw.is_forwarded,
                  document_id       |-> kw.document_id,
                  has_photo         |-> kw.has_photo,
                  has_voice         |-> kw.has_voice,
                  has_audio         |-> kw.has_audio,
                  has_video_message |-> hvm,
                  has_video_file    |-> hvf,
                  has_video         |-> PyOr(PyOr(kw.has_video, hvm), hvf),
                  has_sticker       |-> kw.has_sticker,
                  is_link           |-> IF kw.is_link = Nothing
                                        THEN PyBool(islink(kw.text))
                                        ELSE The(kw.is_link)]]

----------------------------------------------------------------------------
(* retriever/telegram_export: one raw record                               *)
(*                                                                         *)
(* A raw record is [type, date, from, text, keys, file]: keys is the set   *)
(* of marker keys the JSON object has, file is the "file" value (a file    *)
(* name is modelled by its suffix).                                        *)

MarkerKeys ==
    {"photo", "voice_message", "video_message", "video_file",
     "sticker_emoji", "audio_file", "forwarded_from", "forwarded_from_id"}

FileAbsent == "<absent>"

FileNotStr == "<not a string>"

FileValues ==
    {FileAbsent, FileNotStr, "", ".webp", ".WEBP", ".mp3", ".MP4", ".jpg"}

\* str.lower(), on the suffixes used
Lower(x) ==
    CASE x = ".WEBP" -> ".webp"
      [] x = ".MP4" -> ".mp4"
      [] OTHER -> x

\* mutant: the extension is compared without lower()
EndsWithAnyCaseSensitive(f, exts) ==
    f \notin {FileAbsent, FileNotStr} /\ f \in exts

\* isinstance(f, str) and f.lower().endswith(exts)
EndsWithAny(f, exts) ==
    f \notin {FileAbsent, FileNotStr} /\ Lower(f) \in exts

AudioExts == {".mp3", ".m4a", ".aac", ".ogg", ".flac", ".wav"}

VideoExts == {".mp4", ".mov", ".mkv", ".webm", ".avi"}

_has_audio(r) ==
    PyBool("audio_file" \in r.keys \/ EndsWithAny(r.file, AudioExts))

\* mutant: any file attached counts as a video file
_has_video_fileAnyFile(r) ==
    PyBool("video_file" \in r.keys \/ r.file # FileAbsent)

_has_video_file(r) ==
    PyBool("video_file" \in r.keys \/ EndsWithAny(r.file, VideoExts))

Seg(k, t) == [kind |-> k, text |-> t]

StrField(x) == [kind |-> "str", s |-> x, segs |-> <<>>]

ListField(ss) == [kind |-> "list", s |-> "", segs |-> ss]

OtherField == [kind |-> "other", s |-> "", segs |-> <<>>]

\* mutant: the "text" of an object is joined whatever its type
JoinsPartAny(seg) == seg.kind \in {"str", "dict", "dict_other"}

\* the item is appended to parts: a plain string (kind "str") or an object
\* whose "text" is a string (kind "dict"); an object with another or no
\* "text" (kind "dict_other") and any other item (kind "other") are not
JoinsPart(seg) == seg.kind \in {"str", "dict"}

\* the parts _coerce_text joins: plain strings, and the "text" of objects
\* whose "text" is a string (kind "dict"); anything else is skipped
RECURSIVE JoinParts(_, _)
JoinParts(segs, j) ==
    IF j > Len(segs) THEN ""
    ELSE (IF JoinsPart(segs[j]) THEN segs[j].text ELSE "")
            \o JoinParts(segs, j + 1)

_coerce_text(f) ==
    IF f.kind = "str" THEN f.s
    ELSE IF f.kind = "list" THEN JoinParts(f.segs, 1)
    ELSE ""

\* _parse_msg_author; msg_from is None (Nothing) or a string
_parse_msg_author(msg_from, yn, tn) ==
    IF msg_from = Some(yn) THEN yn
    ELSE IF msg_from = Some(tn) THEN tn
    ELSE IF msg_from # Nothing /\ The(msg_from) # "" THEN The(msg_from)
    ELSE tn

IsoDate(sec, usec, zone) == [kind |-> "iso", s |-> sec, us |-> usec, tz |-> zone]

OtherDate(k) == [kind |-> k, s |-> 0, us |-> 0, tz |-> ""]

\* has_photo = "photo" in msg
JsonHasPhoto(r, sticker) == PyBool("photo" \in r.keys)

\* _to_mymessage: <<>> for None, else <<message>>
_to_mymessage(r, yn, tn) ==
    IF r.type # "message" THEN <<>>
    ELSE IF r.date.kind \in {"missing", "empty"} THEN <<>>
    ELSE IF r.date.kind # "iso" THEN <<>>
    ELSE LET has_sticker ==
                 PyBool("sticker_emoji" \in r.keys
                            \/ EndsWithAny(r.file, {".webp"}))
         IN  <<MyMessage(
                 [Kw(_coerce_text(r.text), DT(r.date.s, r.date.us),
                     _parse_msg_author(r.from, yn, tn)) EXCEPT
                    !.is_forwarded = PyBool("forwarded_from" \in r.keys
                                        \/ "forwarded_from_id" \in r.keys),
                    !.document_id = Nothing,
                    !.has_photo = JsonHasPhoto(r, has_sticker),
                    !.has_voice = PyBool("voice_message" \in r.keys),
                    !.has_audio = _has_audio(r),
                    !.has_video_message =
                        Some(PyBool("video_message" \in r.keys)),
                    !.has_video_file = Some(_has_video_file(r)),
                    !.has_sticker = has_sticker]).val>>

----------------------------------------------------------------------------
(* retriever/telegram_html: one message block                              *)
(*                                                                         *)
(* A block is [classes, date, from_name, text, divs, title]: classes are   *)
(* the classes of the div.message element, divs the classes of the divs    *)
(* inside it, from_name / text / title the stripped text of the div of     *)
(* that class (Nothing when there is no such div), date the div.date.      *)

MediaDivs ==
    {"media_voice_message", "media_audio_file", "media_audio",
     "media_photo", "media_sticker", "media_video_message", "media_video",
     "media_video_file", "forwarded"}

Titles ==
    {"", "Sticker", "Video message", "Voice message", "Audio file",
     "Video file", "audio.ogg"}

\* str.lower(), on the titles used
TitleLower(t) ==
    CASE t = "Sticker" -> "sticker"
      [] t = "Video message" -> "video message"
      [] t = "Voice message" -> "voice message"
      [] t = "Audio file" -> "audio file"
      [] t = "Video file" -> "video file"
      [] OTHER -> t

\* needle in t, for the needles the adapter looks for
Contains(t, needle) ==
    needle \in (CASE t = "sticker" -> {"sticker"}
                  [] t = "video message" -> {"video message", "video"}
                  [] t = "voice message" -> {"voice message"}
                  [] t = "audio file" -> {"audio file"}
                  [] t = "video file" -> {"video"}
                  [] OTHER -> {})

\* t.startswith("audio")
StartsWithAudio(t) == t \in {"audio file", "audio.ogg"}

_select_has(b, class_name) == PyBool(class_name \in b.divs)

\* a date string of the export: empty, one dateutil cannot parse, or a time
DateText(k, sec, usec) == [kind |-> k, s |-> sec, us |-> usec]

NoDateText == DateText("empty", 0, 0)

_coerce_author(name, yn, tn, last) ==
    IF name # Nothing /\ The(name) # ""
    THEN (IF The(name) = yn THEN yn
          ELSE IF The(name) = tn THEN tn
          ELSE The(name))
    ELSE IF last # Nothing /\ The(last) # "" THEN The(last)
    ELSE tn

\* has_photo = media_photo_present and not has_sticker
HtmlHasPhoto(photo, sticker) == PyAnd(photo, PyNot(sticker))

\* the body of the loop over soup.select("div.message"): the message
\* appended (<<>> when the block is skipped) and the new last_author
HtmlMessage(b, yn, tn, last) ==
    LET title == IF b.date.title.kind # "empty" THEN b.date.title
                 ELSE b.date.shown
    IN
    IF "service" \in b.classes \/ ~b.date.div \/ title.kind # "time"
    THEN [out |-> <<>>, last |-> last]
    ELSE
    LET raw_author == b.from_name
        author     == _coerce_author(raw_author, yn, tn, last)
        text       == IF b.text = Nothing THEN "" ELSE The(b.text)
        voice0     == _select_has(b, "media_voice_message")
        audio0     == PyOr(_select_has(b, "media_audio_file"),
                           _select_has(b, "media_audio"))
        media_photo_present == _select_has(b, "media_photo")
        title_text == IF b.title = Nothing THEN ""
                      ELSE TitleLower(The(b.title))
        has_sticker ==
            PyOr(_select_has(b, "media_sticker"),
                 PyAnd(media_photo_present,
                       PyBool(Contains(title_text, "sticker"))))
        video_classes_message ==
            PyOr(_select_has(b, "media_video_message"),
                 PyAnd(_select_has(b, "media_video"),
                       PyBool(Contains(title_text, "video message"))))
        video_classes_file ==
            PyOr(_select_has(b, "media_video_file"),
                 PyAnd(PyAnd(PyAnd(_select_has(b, "media_video"), title_text),
                             PyBool(~Contains(title_text, "video message"))),
                       PyBool(Contains(title_text, "video"))))
        has_voice  == IF ~Truthy(voice0)
                           /\ Contains(title_text, "voice message")
                      THEN True ELSE voice0
        has_video_message ==
            IF ~Truthy(video_classes_message)
                 /\ Contains(title_text, "video message")
            THEN True ELSE video_classes_message
        has_audio  == IF ~Truthy(audio0)
                           /\ (Contains(title_text, "audio file")
                                 \/ StartsWithAudio(title_text))
                      THEN True ELSE audio0
    IN  [out |-> <<MyMessage(
                 [Kw(text, DT(title.s, title.us), author) EXCEPT
                    !.is_forwarded = PyBool("forwarded" \in b.divs),
                    !.document_id = Nothing,
                    !.has_photo = HtmlHasPhoto(media_photo_present,
                                               has_sticker),
                    !.has_voice = has_voice,
                    !.has_audio = has_audio,
                    !.has_video_message = Some(has_video_message),
                    !.has_video_file = Some(video_classes_file),
                    !.has_sticker = has_sticker]).val>>,
         last |-> IF raw_author # Nothing /\ The(raw_author) # ""
                  THEN raw_author
                  ELSE IF last # Nothing /\ The(last) # "" THEN last
                  ELSE Some(author)]

----------------------------------------------------------------------------
(* One raw record through its adapter                                      *)

Names == {<<"Alice", "Bob">>, <<"Alice", "Alice">>}

JsonRec(ty, d, f, t, k, fl) ==
    [type |-> ty, date |-> d, from |-> f, text |-> t, keys |-> k, file |-> fl]

JsonEnvelopes ==
    { JsonRec("message", IsoDate(100, 0, ""), Some("Alice"),
              StrField("hi"), {}, FileAbsent),
      JsonRec("message", IsoDate(100, 500000, "Z"), Some("Bob"),
              ListField(<<Seg("dict", "hi"), Seg("dict", " there")>>),
              {}, FileAbsent),
      JsonRec("message", IsoDate(200, 0, "+03:00"), Nothing,
              StrField("http://example.com"), {}, FileAbsent),
      JsonRec("message", IsoDate(200, 0, ""), Some("Carol"),
              ListField(<<Seg("str", "a"), Seg("other", ""),
                          Seg("dict", "b")>>), {}, FileAbsent),
      JsonRec("service", IsoDate(100, 0, ""), Some("Alice"),
              StrField("hi"), {}, FileAbsent),
      JsonRec("message", OtherDate("missing"), Some("Alice"),
              StrField("hi"), {}, FileAbsent),
      JsonRec("message", OtherDate("empty"), Some(""),
              OtherField, {}, FileAbsent),
      JsonRec("message", OtherDate("bad"), Some("Bob"),
              StrField("hi"), {}, FileAbsent) }

JsonRecords ==
    { [e EXCEPT !.keys = k, !.file = f] :
        e \in JsonEnvelopes, k \in SUBSET MarkerKeys, f \in FileValues }

HtmlBlock(cl, d, f, t, dv, ti) ==
    [classes |-> cl, date |-> d, from_name |-> f, text |-> t, divs |-> dv,
     title |-> ti]

DateDiv(ti, sh) == [div |-> TRUE, title |-> ti, shown |-> sh]

NoDateDiv == [div |-> FALSE, title |-> NoDateText, shown |-> NoDateText]

HtmlEnvelopes ==
    { HtmlBlock({"message", "default"},
                DateDiv(DateText("time", 100, 0), DateText("bad", 0, 0)),
                Some("Alice"), Some("hi"), {}, Nothing),
      HtmlBlock({"message", "default", "joined"},
                DateDiv(NoDateText, DateText("time", 200, 0)),
                Nothing, Nothing, {}, Nothing),
      HtmlBlock({"message", "default"},
                DateDiv(DateText("time", 100, 0), NoDateText),
                Some("Carol"), Some("http://example.com"), {}, Nothing),
      HtmlBlock({"message", "service"},
                DateDiv(DateText("time", 100, 0), NoDateText),
                Nothing, Some("hi"), {}, Nothing),
      HtmlBlock({"message", "default"}, NoDateDiv,
                Some("Bob"), Some("hi"), {}, Nothing),
      HtmlBlock({"message", "default"},
                DateDiv(DateText("bad", 0, 0), DateText("time", 100, 0)),
                Some(""), Some("hi"), {}, Nothing) }

TitleChoices == {Nothing} \cup { Some(t) : t \in Titles }

HtmlBlocks ==
    { [e EXCEPT !.divs = d, !.title = t] :
        e \in HtmlEnvelopes, d \in SUBSET MediaDivs, t \in TitleChoices }

InitRecord ==
    /\ IdleRest
    /\ IdleSplit
    /\ IdleSample
    /\ IdleAgg
    /\ IdleDir
    /\ IdleStore
    /\ pc = "start"
    /\ \E n \in Names : your_name = n[1] /\ target_name = n[2]
    /\ \/ /\ adapter = "json"
          /\ raw \in JsonRecords
          /\ last_author = Nothing
       \/ /\ adapter = "html"
          /\ raw \in HtmlBlocks
          /\ last_author \in {Nothing, Some("Carol")}
    /\ msg = None

\* _to_mymessage(rec, your_name, target_name)
ToMyMessage ==
    /\ pc = "start"
    /\ adapter = "json"
    /\ msg' = _to_mymessage(raw, your_name, target_name)
    /\ pc' = "done"
    /\ UNCHANGED <<restVars, splitVars, texts, sampleVars, aggVars, adapter, your_name,
                   target_name, raw, last_author, dirVars, storeVars>>

\* one iteration of the loop over div.message
HtmlBlockStep ==
    /\ pc = "start"
    /\ adapter = "html"
    /\ LET r == HtmlMessage(raw, your_name, target_name, last_author)
       IN  /\ msg' = r.out
           /\ last_author' = r.last
    /\ pc' = "done"
    /\ UNCHANGED <<restVars, splitVars, texts, sampleVars, aggVars, adapter, your_name,
                   target_name, raw, dirVars, storeVars>>

NextRecord == ToMyMessage \/ HtmlBlockStep

SpecRecord == InitRecord /\ [][NextRecord]_vars

----------------------------------------------------------------------------
(* get_mymessages_from_export and get_mymessages_from_html on a whole      *)
(* source                                                                  *)
(*                                                                         *)
(* A source is [kind, files]: kind "dir" (export_path is a directory, or   *)
(* does not exist when every file is absent) or "file" (export_path is     *)
(* one file), files maps each file name to its content [state, records].   *)
(* Each message is paired with the position of the raw record it came      *)
(* from: o.pos the index of the file in the list of files read, o.file     *)
(* its name, o.rec the index of the record in the file.                    *)

MaxRecords == 3

Content(st, recs) == [state |-> st, records |-> recs]

Origin(p, f, r) == [pos |-> p, file |-> f, rec |-> r]

\* datetime.__lt__, the order list.sort compares the keys with
DateLt(a, b) == a.s < b.s \/ (a.s = b.s /\ a.us < b.us)

\* mutant: x is placed before the elements with an equal key too, so equal
\* keys end up in reverse order of encounter
ComesBeforeOrEqual(x, y) == ~DateLt(y.m.date, x.m.date)

\* x has to be placed before y: its key is strictly smaller
ComesBefore(x, y) == DateLt(x.m.date, y.m.date)

\* x put into the sorted list, after every element whose key is not greater
InsertByDate(sorted, x) ==
    LET later == { k \in 1..Len(sorted) : ComesBefore(x, sorted[k]) }
        at    == IF later = {} THEN Len(sorted) + 1
                 ELSE CHOOSE k \in later : \A j \in later : k <= j
    IN  SubSeq(sorted, 1, at - 1) \o <<x>> \o SubSeq(sorted, at, Len(sorted))

RECURSIVE SortFrom(_, _, _)
SortFrom(ps, i, acc) ==
    IF i > Len(ps) THEN acc
    ELSE SortFrom(ps, i + 1, InsertByDate(acc, ps[i]))

\* msgs.sort(key=lambda m: m.date): list.sort is stable
SortByDate(ps) == SortFrom(ps, 1, <<>>)

Messages(ps) == [i \in 1..Len(ps) |-> ps[i].m]

Origins(ps) == [i \in 1..Len(ps) |-> ps[i].o]

Exists(src, name) ==
    name \in DOMAIN src.files /\ src.files[name].state # "absent"

RECURSIVE Filter(_, _, _)
Filter(names, src, k) ==
    IF k > Len(names) THEN <<>>
    ELSE (IF Exists(src, names[k]) THEN <<names[k]>> ELSE <<>>)
            \o Filter(names, src, k + 1)

\* sorted(path.glob("messages*.json")): the matching names that exist, in
\* path order ("messages.json" < "messages2.json")
GlobMessagesJson(src) == Filter(<<"messages.json", "messages2.json">>, src, 1)

\* the list json_files
JsonFiles(src) ==
    IF src.kind = "file" THEN <<"export.json">>
    ELSE Filter(<<"result.json", "messages.json">> \o GlobMessagesJson(src),
                src, 1)

\* mutant: the loop over the records ends at the first record that gives
\* no message
RECURSIVE JsonRecordsLoopBreak(_, _, _, _, _, _)
JsonRecordsLoopBreak(recs, i, p, name, yn, tn) ==
    IF i > Len(recs) THEN <<>>
    ELSE LET mm == _to_mymessage(recs[i], yn, tn)
         IN  IF mm = <<>> THEN <<>>
             ELSE <<[m |-> mm[1], o |-> Origin(p, name, i)]>>
                    \o JsonRecordsLoopBreak(recs, i + 1, p, name, yn, tn)

\* for rec in records: the messages appended, with their origins
RECURSIVE JsonRecordsLoop(_, _, _, _, _, _)
JsonRecordsLoop(recs, i, p, name, yn, tn) ==
    IF i > Len(recs) THEN <<>>
    ELSE LET mm == _to_mymessage(recs[i], yn, tn)
         IN  (IF mm = <<>> THEN <<>>
              ELSE <<[m |-> mm[1], o |-> Origin(p, name, i)]>>)
                \o JsonRecordsLoop(recs, i + 1, p, name, yn, tn)

\* mutant: the loop over the files ends at the first file that cannot be
\* read
RECURSIVE JsonFilesLoopStop(_, _, _, _, _, _)
JsonFilesLoopStop(src, names, k, acc, yn, tn) ==
    IF k > Len(names) THEN acc
    ELSE LET c == src.files[names[k]]
         IN  IF c.state = "invalid"
             THEN [acc EXCEPT !.log = Append(@, <<"Failed to read", names[k]>>)]
             ELSE IF c.state \notin {"dict", "list"}
             THEN JsonFilesLoopStop(src, names, k + 1, acc, yn, tn)
             ELSE JsonFilesLoopStop(src, names, k + 1,
                    [acc EXCEPT !.pairs =
                        @ \o JsonRecordsLoop(c.records, 1, k, names[k], yn, tn)],
                    yn, tn)

\* for jf in json_files: the pairs appended to msgs and the lines logged
RECURSIVE JsonFilesLoop(_, _, _, _, _, _)
JsonFilesLoop(src, names, k, acc, yn, tn) ==
    IF k > Len(names) THEN acc
    ELSE LET c == src.files[names[k]]
         IN  IF c.state = "invalid"
             THEN JsonFilesLoop(src, names, k + 1,
                    [acc EXCEPT !.log = Append(@, <<"Failed to read", names[k]>>)],
                    yn, tn)
             ELSE IF c.state \notin {"dict", "list"}
             THEN JsonFilesLoop(src, names, k + 1, acc, yn, tn)
             ELSE JsonFilesLoop(src, names, k + 1,
                    [acc EXCEPT !.pairs =
                        @ \o JsonRecordsLoop(c.records, 1, k, names[k], yn, tn)],
                    yn, tn)

get_mymessages_from_export(src, yn, tn) ==
    LET json_files == JsonFiles(src)
    IN  IF json_files = <<>>
        THEN [pairs |-> <<>>, log |-> <<<<"No Telegram JSON export found">>>>]
        ELSE LET r      == JsonFilesLoop(src, json_files, 1,
                                         [pairs |-> <<>>, log |-> <<>>], yn, tn)
                 sorted == SortByDate(r.pairs)
             IN  [pairs |-> sorted,
                  log   |-> Append(r.log, <<"messages parsed", Len(sorted)>>)]

\* _get_html_files
_get_html_files(src) ==
    IF src.kind = "file" THEN <<"export.html">>
    ELSE Filter(<<"messages.html", "messages2.html">>, src, 1)

\* for msg in soup.select("div.message")
RECURSIVE HtmlBlocksLoop(_, _, _, _, _, _, _)
HtmlBlocksLoop(blocks, i, p, name, acc, yn, tn) ==
    IF i > Len(blocks) THEN acc
    ELSE LET r == HtmlMessage(blocks[i], yn, tn, acc.last)
         IN  HtmlBlocksLoop(blocks, i + 1, p, name,
                [acc EXCEPT
                   !.pairs = IF r.out = <<>> THEN @
                             ELSE Append(@, [m |-> r.out[1],
                                             o |-> Origin(p, name, i)]),
                   !.last = r.last],
                yn, tn)

\* for fp in html_files
RECURSIVE HtmlFilesLoop(_, _, _, _, _, _)
HtmlFilesLoop(src, names, k, acc, yn, tn) ==
    IF k > Len(names) THEN acc
    ELSE LET c == src.files[names[k]]
         IN  IF c.state # "ok"
             THEN HtmlFilesLoop(src, names, k + 1,
                    [acc EXCEPT !.log = Append(@, <<"Failed to read", names[k]>>)],
                    yn, tn)
             ELSE HtmlFilesLoop(src, names, k + 1,
                    HtmlBlocksLoop(c.records, 1, k, names[k], acc, yn, tn),
                    yn, tn)

get_mymessages_from_html(src, yn, tn) ==
    LET html_files == _get_html_files(src)
    IN  IF html_files = <<>>
        THEN [pairs |-> <<>>, last |-> Nothing,
              log |-> <<<<"No HTML files found">>>>]
        ELSE LET r      == HtmlFilesLoop(src, html_files, 1,
                              [pairs |-> <<>>, last |-> Nothing, log |-> <<>>],
                              yn, tn)
                 sorted == SortByDate(r.pairs)
             IN  [pairs |-> sorted, last |-> r.last,
                  log   |-> Append(r.log, <<"messages parsed", Len(sorted)>>)]

\* the raw records the sources are filled with: two valid ones with the
\* same timestamp, a valid earlier one, and one that is no message
DirRecords ==
    { JsonRec("message", IsoDate(100, 0, ""), Some("Alice"),
              StrField("hi"), {}, FileAbsent),
      JsonRec("message", IsoDate(100, 0, "Z"), Some("Bob"),
              StrField("yo"), {"photo"}, FileAbsent),
      JsonRec("message", IsoDate(50, 0, ""), Some("Bob"),
              StrField("hi"), {}, FileAbsent),
      JsonRec("service", IsoDate(100, 0, ""), Nothing,
              OtherField, {}, FileAbsent) }

DirBlocks ==
    { HtmlBlock({"message", "default"},
                DateDiv(DateText("time", 100, 0), NoDateText),
                Some("Alice"), Some("hi"), {}, Nothing),
      HtmlBlock({"message", "default", "joined"},
                DateDiv(DateText("time", 100, 0), NoDateText),
                Nothing, Some("yo"), {"media_photo"}, Nothing),
      HtmlBlock({"message", "default"},
                DateDiv(DateText("time", 50, 0), NoDateText),
                Some("Carol"), Some("hi"), {}, Nothing),
      HtmlBlock({"message", "service"},
                DateDiv(DateText("time", 100, 0), NoDateText),
                Nothing, Some("hi"), {}, Nothing),
      HtmlBlock({"message", "default"},
                DateDiv(DateText("bad", 0, 0), NoDateText),
                Some("Dave"), Some("hi"), {}, Nothing) }

\* the states of a file that holds no record / that holds records
JsonEmptyStates == {"absent", "invalid", "other", "dict"}

JsonFullStates == {"dict", "list"}

HtmlEmptyStates == {"absent", "unreadable", "ok"}

HtmlFullStates == {"ok"}

FileStates(recs, empty, full) == IF recs = <<>> THEN empty ELSE full

\* a directory whose files hold, in listing order, the pieces of recs cut
\* at i and j
JsonDir(recs, i, j, st) ==
    [kind  |-> "dir",
     files |-> [n \in {"result.json", "messages.json", "messages2.json"} |->
                  CASE n = "result.json" ->
                         Content(st[1], SubSeq(recs, 1, i))
                    [] n = "messages.json" ->
                         Content(st[2], SubSeq(recs, i + 1, j))
                    [] OTHER ->
                         Content(st[3], SubSeq(recs, j + 1, Len(recs)))]]

HtmlDir(recs, i, st) ==
    [kind  |-> "dir",
     files |-> [n \in {"messages.html", "messages2.html"} |->
                  IF n = "messages.html"
                  THEN Content(st[1], SubSeq(recs, 1, i))
                  ELSE Content(st[2], SubSeq(recs, i + 1, Len(recs)))]]

OneFile(name, st, recs) ==
    [kind |-> "file", files |-> [n \in {name} |-> Content(st, recs)]]

InitAdapters ==
    /\ IdleRest
    /\ IdleSplit
    /\ IdleSample
    /\ IdleAgg
    /\ IdleStore
    /\ pc = "start"
    /\ your_name = "Alice" /\ target_name = "Bob"
    /\ raw = Idle /\ msg = Idle
    /\ last_author = Nothing
    /\ msg_list = None /\ origins = None /\ log = <<>>
    /\ \/ /\ adapter = "json"
          /\ \E recs \in SeqsUpTo(DirRecords, MaxRecords) :
                \/ \E i \in 0..Len(recs) : \E j \in i..Len(recs) :
                     \E s1 \in FileStates(SubSeq(recs, 1, i),
                                          JsonEmptyStates, JsonFullStates) :
                     \E s2 \in FileStates(SubSeq(recs, i + 1, j),
                                          JsonEmptyStates, JsonFullStates) :
                     \E s3 \in FileStates(SubSeq(recs, j + 1, Len(recs)),
                                          JsonEmptyStates, JsonFullStates) :
                        source = JsonDir(recs, i, j, <<s1, s2, s3>>)
                \/ \E st \in FileStates(recs, JsonEmptyStates \ {"absent"},
                                        JsonFullStates) :
                        source = OneFile("export.json", st, recs)
       \/ /\ adapter = "html"
          /\ \E recs \in SeqsUpTo(DirBlocks, MaxRecords) :
                \/ \E i \in 0..Len(recs) :
                     \E s1 \in FileStates(SubSeq(recs, 1, i),
                                          HtmlEmptyStates, HtmlFullStates) :
                     \E s2 \in FileStates(SubSeq(recs, i + 1, Len(recs)),
                                          HtmlEmptyStates, HtmlFullStates) :
                        source = HtmlDir(recs, i, <<s1, s2>>)
                \/ \E st \in FileStates(recs, HtmlEmptyStates \ {"absent"},
                                        HtmlFullStates) :
                        source = OneFile("export.html", st, recs)

\* get_mymessages_from_export(export_path, your_name, target_name)
GetMyMessagesFromExport ==
    /\ pc = "start"
    /\ adapter = "json"
    /\ LET r == get_mymessages_from_export(source, your_name, target_name)
       IN  /\ msg_list' = Messages(r.pairs)
           /\ origins' = Origins(r.pairs)
           /\ log' = log \o r.log
    /\ pc' = "done"
    /\ UNCHANGED <<restVars, splitVars, texts, sampleVars, aggVars, adapter, your_name,
                   target_name, raw, last_author, msg, source, storeVars>>

\* get_mymessages_from_html(export_path, your_name, target_name)
GetMyMessagesFromHtml ==
    /\ pc = "start"
    /\ adapter = "html"
    /\ LET r == get_mymessages_from_html(source, your_name, target_name)
       IN  /\ msg_list' = Messages(r.pairs)
           /\ origins' = Origins(r.pairs)
           /\ last_author' = r.last
           /\ log' = log \o r.log
    /\ pc' = "done"
    /\ UNCHANGED <<restVars, splitVars, texts, sampleVars, aggVars, adapter, your_name,
                   target_name, raw, msg, source, storeVars>>

NextAdapters == GetMyMessagesFromExport \/ GetMyMessagesFromHtml

SpecAdapters == InitAdapters /\ [][NextAdapters]_vars

----------------------------------------------------------------------------
(* storage.store_msgs / storage.get_msgs                                   *)
(*                                                                         *)
(* The file holds a JSON array of objects.  A JSON value is a record       *)
(* [j |-> "true"], [j |-> "false"], [j |-> "null"], [j |-> "number", v]    *)
(* or [j |-> "string", v].                                                 *)

MaxStored == 2

JTrue == [j |-> "true"]

JFalse == [j |-> "false"]

JNull == [j |-> "null"]

JNumber(n) == [j |-> "number", v |-> n]

JString(x) == [j |-> "string", v |-> x]

\* json.dump of a flag value
FlagToJson(v) ==
    IF v = True THEN JTrue ELSE IF v = False THEN JFalse ELSE JString(v)

\* json.loads of a value written for a flag
FlagFromJson(jv) ==
    IF jv = JTrue THEN True ELSE IF jv = JFalse THEN False ELSE jv.v

OptToJson(o) == IF o = Nothing THEN JNull ELSE JNumber(The(o))

OptFromJson(jv) == IF jv = JNull THEN Nothing ELSE Some(jv.v)

\* json.dump(m, default=str) of one message: the datetime, which json
\* cannot encode, goes through str()
DumpMessage(m) ==
    [text              |-> JString(m.text),
     date              |-> JString(DatetimeStr(m.date)),
     author            |-> JString(m.author),
     is_forwarded      |-> FlagToJson(m.is_forwarded),
     document_id       |-> OptToJson(m.document_id),
     has_photo         |-> FlagToJson(m.has_photo),
     has_voice         |-> FlagToJson(m.has_voice),
     has_audio         |-> FlagToJson(m.has_audio),
     has_video_message |-> FlagToJson(m.has_video_message),
     has_video_file    |-> FlagToJson(m.has_video_file),
     has_video         |-> FlagToJson(m.has_video),
     has_sticker       |-> FlagToJson(m.has_sticker),
     is_link           |-> FlagToJson(m.is_link)]

\* mutant: the stored is_link is not handed to the constructor
LinkArgDropped(jv) == Nothing

\* the is_link argument of MyMessage(**d): None for null or a missing key
LinkArg(jv) == IF jv = JNull THEN Nothing ELSE Some(FlagFromJson(jv))

\* MyMessage.from_dict(json object): MyMessage(**d)
from_dict(d) ==
    MyMessage(
        [text              |-> d.text.v,
         date              |-> STR(d.date.v),
         author            |-> d.author.v,
         is_forwarded      |-> FlagFromJson(d.is_forwarded),
         document_id       |-> OptFromJson(d.document_id),
         has_photo         |-> FlagFromJson(d.has_photo),
         has_voice         |-> FlagFromJson(d.has_voice),
         has_audio         |-> FlagFromJson(d.has_audio),
         has_video_message |-> IF d.has_video_message = JNull THEN Nothing
                               ELSE Some(FlagFromJson(d.has_video_message)),
         has_video_file    |-> IF d.has_video_file = JNull THEN Nothing
                               ELSE Some(FlagFromJson(d.has_video_file)),
         has_video         |-> FlagFromJson(d.has_video),
         has_sticker       |-> FlagFromJson(d.has_sticker),
         is_link           |-> LinkArg(d.is_link)])

store_msgs(ms) == [i \in 1..Len(ms) |-> DumpMessage(ms[i])]

\* the list comprehension of get_msgs: the first exception ends the call
get_msgs(file) ==
    LET built == [i \in 1..Len(file) |-> from_dict(file[i])]
    IN  IF \E i \in 1..Len(file) : built[i].exc # None
        THEN [exc |-> "ValueError", val |-> <<>>]
        ELSE [exc |-> None, val |-> [i \in 1..Len(file) |-> built[i].val]]

\* the media keys of a JSON record, one per media flag
MediaKeys ==
    {"photo", "voice_message", "video_message", "video_file",
     "sticker_emoji", "audio_file"}

\* messages the adapters produce: every combination of media flags, with
\* and without a sub-second part, a forwarded one, and the HTML message
\* of a media_video block without title
StoreMessages ==
    { _to_mymessage(JsonRec("message", d, Some("Alice"), StrField("hi"),
                            k, FileAbsent), "Alice", "Bob")[1] :
        d \in {IsoDate(100, 0, ""), IsoDate(100, 500000, "")},
        k \in SUBSET MediaKeys }
    \cup
    { _to_mymessage(JsonRec("message", IsoDate(200, 0, "Z"), Nothing,
                            StrField("http://example.com"),
                            {"forwarded_from"}, ".mp3"), "Alice", "Bob")[1],
      HtmlMessage(HtmlBlock({"message", "default"},
                            DateDiv(DateText("time", 100, 0), NoDateText),
                            Some("Carol"), Nothing, {"media_video"},
                            Nothing), "Alice", "Bob", Nothing).out[1] }

\* the messages the longer lists are built from
StoreSample ==
    { m \in StoreMessages :
        /\ m.has_photo = False /\ m.has_sticker = False
        /\ m.has_voice = False /\ m.has_audio = False
        /\ m.has_video_message = False }

StoreInputs ==
    { <<m>> : m \in StoreMessages } \cup SeqsUpTo(StoreSample, MaxStored)

InitStore ==
    /\ IdleRest
    /\ IdleSplit
    /\ IdleSample
    /\ IdleAgg
    /\ IdleRecord
    /\ source = Idle /\ origins = Idle /\ log = Idle
    /\ pc = "start"
    /\ msg_list \in StoreInputs
    /\ stored = None
    /\ loaded = None

\* store_msgs(file_path, msgs)
StoreMsgs ==
    /\ pc = "start"
    /\ stored' = store_msgs(msg_list)
    /\ pc' = "stored"
    /\ UNCHANGED <<restVars, splitVars, texts, sampleVars, aggVars, recordVars, dirVars,
                   loaded>>

\* get_msgs(file_path)
GetMsgs ==
    /\ pc = "stored"
    /\ LET r == get_msgs(stored)
       IN  IF r.exc = None
           THEN loaded' = r.val /\ pc' = "done"
           ELSE loaded' = None /\ pc' = "raised"
    /\ UNCHANGED <<restVars, splitVars, texts, sampleVars, aggVars, recordVars, dirVars,
                   stored>>

NextStore == StoreMsgs \/ GetMsgs

SpecStore == InitStore /\ [][NextStore]_vars

----------------------------------------------------------------------------
(* myMessage.MyMessage: construction and writes                            *)
(*                                                                         *)
(* The object is a dict: `this` maps each key to its value.  kwargs maps   *)
(* the names of the arguments given to their values.                       *)

MaxWrites == 2

FieldNames ==
    {"text", "date", "author", "is_forwarded", "document_id", "has_photo",
     "has_voice", "has_audio", "has_video_message", "has_video_file",
     "has_video", "has_sticker", "is_link"}

Merge(f, g) ==
    [k \in DOMAIN f \cup DOMAIN g |-> IF k \in DOMAIN g THEN g[k] ELSE f[k]]

\* the arguments __init__ runs with: the ones given, and the default of
\* every other one
Args(given) == Merge(Kw(given.text, given.date, given.author), given)

VideoArgs == {"has_video", "has_video_message", "has_video_file"}

\* has_video, has_video_message, has_video_file: each absent, True or False
VideoGiven ==
    UNION { { [k \in D |-> IF k = "has_video" THEN b[k] ELSE Some(b[k])] :
                b \in [D -> {True, False}] } : D \in SUBSET VideoArgs }

Required(t, d, a) == [text |-> t, date |-> d, author |-> a]

KwargsBases ==
    { Required("hi", DT(100, 0), "Alice"),
      Merge(Required("hi", STR(<<100>>), "Bob"), [is_link |-> Some(True)]),
      Required("hi", STR(<<100, 500000>>), "Alice"),
      Merge(Required("http://example.com", DT(100, 500000), "Carol"),
            [has_photo |-> True, document_id |-> Some(7)]) }

KwargsChoices == { Merge(b, v) : b \in KwargsBases, v \in VideoGiven }

\* the (key, value) pairs written: three fields and a key the object
\* does not have
WriteChoices ==
    { <<"text", "bye">>, <<"has_photo", True>>, <<"has_video", False>>,
      <<"note", "x">> }

NoOp == [op |-> "none"]

InitMessage ==
    /\ resolved = Idle
    /\ IdleTail
    /\ IdleSplit
    /\ IdleSample
    /\ IdleAgg
    /\ IdleAdapters
    /\ pc = "start"
    /\ kwargs \in KwargsChoices
    /\ this = None
    /\ last_op = NoOp
    /\ writes = 0

\* m = MyMessage(**kwargs)
Construct ==
    /\ pc = "start"
    /\ LET r == MyMessage(Args(kwargs))
       IN  IF r.exc = None
           THEN this' = r.val /\ pc' = "built"
           ELSE this' = None /\ pc' = "raised"
    /\ UNCHANGED <<tailVars, resolved, splitVars, texts, sampleVars, aggVars, adapterVars, kwargs,
                   last_op, writes>>

\* m.key = value: MyMessage.__setattr__
SetAttr ==
    /\ pc = "built"
    /\ writes < MaxWrites
    /\ \E w \in WriteChoices :
          IF w[1] \in DOMAIN this
          THEN /\ last_op' = [op |-> "setattr", key |-> w[1], value |-> w[2],
                              raised |-> TRUE]
               /\ this' = this
          ELSE /\ last_op' = [op |-> "setattr", key |-> w[1], value |-> w[2],
                              raised |-> FALSE]
               /\ this' = Merge(this, [k \in {w[1]} |-> w[2]])
    /\ writes' = writes + 1
    /\ UNCHANGED <<tailVars, resolved, splitVars, texts, sampleVars, aggVars, adapterVars, kwargs,
                   pc>>

\* m[key] = value: dict.__setitem__, which MyMessage inherits unchanged
SetItem ==
    /\ pc = "built"
    /\ writes < MaxWrites
    /\ \E w \in WriteChoices :
          /\ last_op' = [op |-> "setitem", key |-> w[1], value |-> w[2],
                         raised |-> FALSE]
          /\ this' = Merge(this, [k \in {w[1]} |-> w[2]])
    /\ writes' = writes + 1
    /\ UNCHANGED <<tailVars, resolved, splitVars, texts, sampleVars, aggVars, adapterVars, kwargs,
                   pc>>

NextMessage == Construct \/ SetAttr \/ SetItem

SpecMessage == InitMessage /\ [][NextMessage]_vars


----------------------------------------------------------------------------
(* storage.get_msgs on persisted records                                   *)
(*                                                                         *)
(* The file holds one record: the dump of a message built with any         *)
(* is_link and video arguments, as written or without an is_link value     *)
(* (null; a missing key gives the constructor the same None).              *)

OptFlags == {Nothing, Some(True), Some(False)}

ReloadKwargs ==
    { Merge(Kw(t, d, "Alice"),
            [is_link |-> l, has_video |-> hv, has_video_message |-> hvm,
             has_video_file |-> hvf, has_photo |-> p]) :
        t \in {"hi", "http://example.com"},
        d \in {DT(100, 0), DT(100, 500000)},
        l \in OptFlags, hv \in {True, False}, hvm \in OptFlags,
        hvf \in OptFlags, p \in {True, False} }

WithoutIsLink(r) == [r EXCEPT !.is_link = JNull]

ReloadRecords ==
    LET dumped == { DumpMessage(MyMessage(kw).val) : kw \in ReloadKwargs }
    IN  dumped \cup { WithoutIsLink(r) : r \in dumped }

InitReload ==
    /\ IdleRest
    /\ IdleSplit
    /\ IdleSample
    /\ IdleAgg
    /\ IdleRecord
    /\ source = Idle /\ origins = Idle /\ log = Idle
    /\ pc = "stored"
    /\ msg_list = Idle
    /\ stored \in { <<r>> : r \in ReloadRecords }
    /\ loaded = None

NextReload == GetMsgs

SpecReload == InitReload /\ [][NextReload]_vars

----------------------------------------------------------------------------
(* The author resolvers on their own                                       *)

Identities == {"Alice", "Bob", "Carol"}

\* the raw labels: absent (None), empty, the identities, and labels that
\* are no identity
Labels == {Nothing} \cup { Some(l) : l \in Identities \cup {"", "alice", "Dave"} }

InitAuthor ==
    /\ IdleMsg
    /\ IdleTail
    /\ IdleSplit
    /\ IdleSample
    /\ IdleAgg
    /\ IdleDir
    /\ IdleStore
    /\ pc = "start"
    /\ adapter \in {"json", "html"}
    /\ your_name \in Identities
    /\ target_name \in Identities
    /\ raw \in Labels
    /\ last_author \in (IF adapter = "html" THEN {Nothing, Some("Dave")}
                        ELSE {Nothing})
    /\ msg = Idle
    /\ resolved = None

\* _parse_msg_author(msg.get("from"), your_name, target_name)
ParseMsgAuthor ==
    /\ pc = "start"
    /\ adapter = "json"
    /\ resolved' = _parse_msg_author(raw, your_name, target_name)
    /\ pc' = "done"
    /\ UNCHANGED <<tailVars, msgVars, splitVars, texts, sampleVars, aggVars,
                   adapterVars>>

\* _coerce_author(raw_author, your_name, target_name, last_author)
CoerceAuthor ==
    /\ pc = "start"
    /\ adapter = "html"
    /\ resolved' = _coerce_author(raw, your_name, target_name, last_author)
    /\ pc' = "done"
    /\ UNCHANGED <<tailVars, msgVars, splitVars, texts, sampleVars, aggVars,
                   adapterVars>>

NextAuthor == ParseMsgAuthor \/ CoerceAuthor

SpecAuthor == InitAuthor /\ [][NextAuthor]_vars

----------------------------------------------------------------------------
(* _coerce_text on its own                                                 *)

MaxSegs == 3

\* the items of a segment list: a plain string, two objects with a string
\* "text", an object whose "text" is the number 7, and a number
SegChoices ==
    { Seg("str", "a"), Seg("dict", "hi"), Seg("dict", " there"),
      Seg("dict_other", "7"), Seg("other", "") }

TextFields ==
    { StrField(x) : x \in {"", "hi", "hi there"} }
        \cup { ListField(ss) : ss \in SeqsUpTo(SegChoices, MaxSegs) }
        \cup { OtherField }

InitText ==
    /\ IdleMsg
    /\ IdleTail
    /\ IdleSplit
    /\ IdleSample
    /\ IdleAgg
    /\ IdleDir
    /\ IdleStore
    /\ pc = "start"
    /\ adapter = "json"
    /\ your_name = Idle /\ target_name = Idle
    /\ last_author = Idle /\ msg = Idle
    /\ raw \in TextFields
    /\ resolved = None

\* text = _coerce_text(msg.get("text", ""))
CoerceText ==
    /\ pc = "start"
    /\ resolved' = _coerce_text(raw)
    /\ pc' = "done"
    /\ UNCHANGED <<tailVars, msgVars, splitVars, texts, sampleVars, aggVars,
                   adapterVars>>

NextText == CoerceText

SpecText == InitText /\ [][NextText]_vars

----------------------------------------------------------------------------
(* get_mymessages_from_export on one file holding records that are        *)
(* dropped                                                                 *)

\* two valid records, and records that are no message, have no date, an
\* empty date, or a date that is not ISO-8601
DropRecords ==
    { JsonRec("message", IsoDate(100, 0, ""), Some("Alice"),
              StrField("hi"), {}, FileAbsent),
      JsonRec("message", IsoDate(50, 0, "Z"), Some("Bob"),
              StrField("yo"), {"photo"}, FileAbsent),
      JsonRec("service", IsoDate(100, 0, ""), Nothing,
              OtherField, {}, FileAbsent),
      JsonRec("message", OtherDate("missing"), Some("Alice"),
              StrField("hi"), {}, FileAbsent),
      JsonRec("message", OtherDate("empty"), Some("Bob"),
              StrField("hi"), {}, FileAbsent),
      JsonRec("message", OtherDate("bad"), Some("Carol"),
              StrField("hi"), {"sticker_emoji"}, ".webp") }

InitDrop ==
    /\ IdleRest
    /\ IdleSplit
    /\ IdleSample
    /\ IdleAgg
    /\ IdleStore
    /\ pc = "start"
    /\ adapter = "json"
    /\ your_name = "Alice" /\ target_name = "Bob"
    /\ raw = Idle /\ msg = Idle
    /\ last_author = Nothing
    /\ msg_list = None /\ origins = None /\ log = <<>>
    /\ \E recs \in SeqsUpTo(DropRecords, MaxRecords) :
       \E st \in JsonFullStates :
          source = OneFile("export.json", st, recs)

NextDrop == GetMyMessagesFromExport

SpecDrop == InitDrop /\ [][NextDrop]_vars

----------------------------------------------------------------------------
(* sentiment_analysis_cli.split_into_conversations                         *)

MaxMsgs == 4

\* Message times, in seconds after the first message.
SplitTimes == {0, 59, 60, 61, 121, 600, 3000}

GapChoices == {-1, 0, 1, 2, 30}

SecondsPerMinute == 60

\* timedelta(minutes=gap_minutes), in seconds
timedelta_minutes(m) == m * SecondsPerMinute

\* mutant: a gap equal to the threshold already starts a new run
SplitGapExceededGe(m, last, gap) == (m.date - last.date) >= gap

\* the test of the loop: (m.date - current[-1].date) > gap
SplitGapExceeded(m, last, gap) == (m.date - last.date) > gap

\* mutant: the run still open when the input ends is not appended
RECURSIVE SplitLoopDropLast(_, _, _, _, _)
SplitLoopDropLast(msgs, i, cs, current, gap) ==
    IF i > Len(msgs)
    THEN cs
    ELSE IF SplitGapExceeded(msgs[i], current[Len(current)], gap)
         THEN SplitLoopDropLast(msgs, i + 1, Append(cs, current), <<msgs[i]>>, gap)
         ELSE SplitLoopDropLast(msgs, i + 1, cs, Append(current, msgs[i]), gap)

\* the loop of split_into_conversations over messages[1:], and the final
\* convos.append(current)
RECURSIVE SplitLoop(_, _, _, _, _)
SplitLoop(msgs, i, cs, current, gap) ==
    IF i > Len(msgs)
    THEN Append(cs, current)
    ELSE IF SplitGapExceeded(msgs[i], current[Len(current)], gap)
         THEN SplitLoop(msgs, i + 1, Append(cs, current), <<msgs[i]>>, gap)
         ELSE SplitLoop(msgs, i + 1, cs, Append(current, msgs[i]), gap)

split_into_conversations(msgs, gap_min) ==
    IF msgs = <<>>
    THEN <<>>
    ELSE SplitLoop(msgs, 2, <<>>, <<msgs[1]>>, timedelta_minutes(gap_min))

\* Sorted message sequences: the text of a message is its position in the
\* input, so that two messages with the same time stay distinguishable.
SortedTimeSeqs ==
    {s \in SeqsUpTo(SplitTimes, MaxMsgs) :
        \A i \in 1..(Len(s) - 1) : s[i] <= s[i + 1]}

SplitInputs ==
    {[i \in 1..Len(s) |-> [date |-> s[i], text |-> i]] : s \in SortedTimeSeqs}

InitSplit ==
    /\ IdleRest
    /\ IdleSample
    /\ IdleAgg
    /\ IdleAdapters
    /\ pc = "start"
    /\ messages \in SplitInputs
    /\ gap_minutes \in GapChoices
    /\ convos = None

SplitIntoConversations ==
    /\ pc = "start"
    /\ convos' = split_into_conversations(messages, gap_minutes)
    /\ pc' = "done"
    /\ UNCHANGED <<restVars, messages, gap_minutes, texts, sampleVars, aggVars,
                   adapterVars>>

NextSplit == SplitIntoConversations

SpecSplit == InitSplit /\ [][NextSplit]_vars


----------------------------------------------------------------------------
(* IEEE-754 binary64 arithmetic, as far as sample_texts uses it.           *)
(* A positive float is [m, e]: m is its 53-bit significand, most           *)
(* significant bit first and equal to 1, and e is the exponent of that     *)
(* leading bit, so the value is the sum of m[j] * 2^(e - (j - 1)).         *)
(* Zero is [m |-> <<>>, e |-> 0].  Results are rounded to nearest, ties to *)
(* even, as CPython's float division and multiplication are.               *)

MantissaBits == 53

FloatZero == [m |-> <<>>, e |-> 0]

RECURSIVE Pow2(_)
Pow2(k) == IF k = 0 THEN 1 ELSE 2 * Pow2(k - 1)

RECURSIVE BitsToNat(_)
BitsToNat(bs) ==
    IF bs = <<>> THEN 0
    ELSE 2 * BitsToNat(SubSeq(bs, 1, Len(bs) - 1)) + bs[Len(bs)]

RECURSIVE NatToBits(_)
NatToBits(k) == IF k = 0 THEN <<>> ELSE Append(NatToBits(k \div 2), k % 2)

\* bs, left-padded with zeros to w bits
PadBits(bs, w) ==
    [j \in 1..w |-> IF j <= w - Len(bs) THEN 0 ELSE bs[j - (w - Len(bs))]]

\* bs + 1; one bit longer when every bit of bs is 1
IncBits(bs) ==
    IF \A j \in 1..Len(bs) : bs[j] = 1
    THEN <<1>> \o [j \in 1..Len(bs) |-> 0]
    ELSE LET p == CHOOSE q \in 1..Len(bs) :
                      bs[q] = 0 /\ \A j \in (q + 1)..Len(bs) : bs[j] = 1
         IN  [j \in 1..Len(bs) |->
                 IF j < p THEN bs[j] ELSE IF j = p THEN 1 ELSE 0]

\* A rounded significand that carried into a 54th bit is renormalised.
Normalise(bs, e) ==
    IF Len(bs) > MantissaBits
    THEN [m |-> SubSeq(bs, 1, MantissaBits), e |-> e + 1]
    ELSE [m |-> bs, e |-> e]

\* The significand bs[1..53] of a longer exact result bs, rounded to nearest
\* even on the bits that follow; `more` tells that non-zero bits follow bs.
RoundBits(bs, e, more) ==
    LET keep   == SubSeq(bs, 1, MantissaBits)
        guard  == IF Len(bs) > MantissaBits THEN bs[MantissaBits + 1] ELSE 0
        sticky == more \/ \E j \in (MantissaBits + 2)..Len(bs) : bs[j] = 1
        up     == guard = 1 /\ (sticky \/ keep[MantissaBits] = 1)
    IN  Normalise(IF up THEN IncBits(keep) ELSE keep, e)

\* the largest e >= 0 with d * 2^e <= n, for n >= d >= 1
RECURSIVE FloorLog2(_, _)
FloorLog2(n, d) == IF 2 * d > n THEN 0 ELSE 1 + FloorLog2(n, 2 * d)

\* 2^k mod d, by repeated squaring
RECURSIVE Pow2Mod(_, _)
Pow2Mod(k, d) ==
    IF k = 0 THEN 1 % d
    ELSE IF k % 2 = 1 THEN (2 * Pow2Mod(k - 1, d)) % d
    ELSE LET h == Pow2Mod(k \div 2, d) IN (h * h) % d

\* float(n) / float(c) for integers n >= c >= 1: with d = c * 2^e <= n < 2d
\* the quotient is 1.b1 b2 ... * 2^e, where the remainder after k bits is
\* ((n - d) * 2^k) mod d and bit k is floor(2 * remainder(k - 1) / d).
FloatDiv(n, c) ==
    LET e      == FloorLog2(n, c)
        d      == c * Pow2(e)
        rem(k) == ((n - d) * Pow2Mod(k, d)) % d
        q      == [j \in 1..(MantissaBits + 1) |->
                      IF j = 1 THEN 1 ELSE (2 * rem(j - 2)) \div d]
    IN  RoundBits(q, e, rem(MantissaBits) # 0)

\* The exact product bs * i as bits, for a 53-bit bs and an integer i with
\* 1 <= i < 2^12, computed on three limbs of at most 18 bits so that no
\* product leaves 31 bits.
MulBits(bs, i) ==
    LET w    == 18
        base == Pow2(w)
        lo   == BitsToNat(SubSeq(bs, Len(bs) - w + 1, Len(bs))) * i
        mid  == BitsToNat(SubSeq(bs, Len(bs) - 2 * w + 1, Len(bs) - w)) * i
                    + lo \div base
        hi   == BitsToNat(SubSeq(bs, 1, Len(bs) - 2 * w)) * i + mid \div base
    IN  NatToBits(hi) \o PadBits(NatToBits(mid % base), w)
                      \o PadBits(NatToBits(lo % base), w)

\* float(i) * x for an integer i >= 0
FloatMulInt(i, x) ==
    IF i = 0 \/ x = FloatZero THEN FloatZero
    ELSE LET p == MulBits(x.m, i)
         IN  RoundBits(p, x.e + (Len(p) - MantissaBits), FALSE)

\* math.floor(x) for x >= 0 below 2^31
FloatFloor(x) ==
    IF x = FloatZero \/ x.e < 0 THEN 0 ELSE BitsToNat(SubSeq(x.m, 1, x.e + 1))

----------------------------------------------------------------------------
(* sentiment_analysis_cli.sample_texts                                     *)

MaxCount == 30

MaxCap == 22

\* range(max_n), as a sequence
Range(n) == [k \in 1..n |-> k - 1]

\* texts[j], Python's 0-based indexing
Item(s, j) == s[j + 1]

\* math.floor(i * step) computed on the exact quotient instead of the float
SampleIndexExact(i, len, cap) == (i * len) \div cap

\* mutant: the index counted from 1
SampleIndexFromOne(i, len, cap) ==
    FloatFloor(FloatMulInt(i, FloatDiv(len, cap))) + 1

\* math.floor(i * step), with step = len(texts) / max_n
SampleIndex(i, len, cap) == FloatFloor(FloatMulInt(i, FloatDiv(len, cap)))

sample_texts(ts, cap) ==
    IF Len(ts) <= cap
    THEN [exc |-> None, val |-> ts]
    ELSE IF cap = 0
         THEN [exc |-> "ZeroDivisionError", val |-> <<>>]
         ELSE [exc |-> None,
               val |-> [k \in 1..cap |->
                          Item(ts, SampleIndex(k - 1, Len(ts), cap))]]

InitSample ==
    /\ IdleRest
    /\ IdleSplit
    /\ IdleAgg
    /\ IdleAdapters
    /\ pc = "start"
    /\ \E n \in 0..MaxCount : texts = Range(n)
    /\ max_n \in 0..MaxCap
    /\ sampled = None

SampleTexts ==
    /\ pc = "start"
    /\ LET r == sample_texts(texts, max_n)
       IN  /\ sampled' = r.val
           /\ pc' = IF r.exc = None THEN "done" ELSE "raised"
    /\ UNCHANGED <<restVars, splitVars, texts, max_n, aggVars, adapterVars>>

NextSample == SampleTexts

SpecSample == InitSample /\ [][NextSample]_vars

----------------------------------------------------------------------------
\* C7: sample_texts returns its input unchanged when count <= cap; otherwise,
\* for a cap of at least 1, it returns exactly cap items, the i-th of them
\* being texts[floor(i * count / cap)].
SampleExactStride ==
    (pc # "start" /\ max_n >= 1) =>
        /\ pc = "done"
        /\ Len(texts) <= max_n => sampled = texts
        /\ Len(texts) > max_n =>
              /\ Len(sampled) = max_n
              /\ \A i \in 0..(max_n - 1) :
                    Item(sampled, i) = Item(texts, (i * Len(texts)) \div max_n)

\* The spec's example: count = 10, cap = 4 selects the indices 0, 2, 5, 7.
SampleExample ==
    (pc = "done" /\ Len(texts) = 10 /\ max_n = 4) => sampled = <<0, 2, 5, 7>>


----------------------------------------------------------------------------
(* sentiment_analysis_cli.batched, run_pipe_avg_scores, run_pipe_frac_above *)
(*                                                                         *)
(* A text is modelled by its kind (0..3); the scoring model is a function  *)
(* of the text alone.  Scores are in tenths (10 is 1.0) and a quotient     *)
(* a / b is kept as the fraction [num |-> a, den |-> b].                   *)

MaxTexts == 66

AvgBatchSize == 32

FracBatchSize == 64

DefaultThreshold == 5

TextKinds == 0..3

Entry(l, sc) == [label |-> l, score |-> sc]

AsDict(l, sc) == [kind |-> "dict", items |-> <<Entry(l, sc)>>]

AsList(es) == [kind |-> "list", items |-> es]

\* The scoring models: one returning the top label of each text as a dict,
\* always with the same label; one returning top labels that differ between
\* texts; one returning every label's score as a list (top_k=None).
PipeModels == {"top1", "top1_mixed", "all_scores"}

PipeResult(p, k) ==
    CASE p = "top1" ->
            AsDict("A", <<10, 0, 5, 2>>[k + 1])
      [] p = "top1_mixed" ->
            <<AsDict("A", 10), AsDict("B", 0), AsDict("B", 5),
              AsDict("A", 2)>>[k + 1]
      [] p = "all_scores" ->
            <<AsList(<<Entry("A", 10), Entry("B", 0)>>),
              AsList(<<Entry("B", 7), Entry("A", 3)>>),
              AsList(<<Entry("A", 5), Entry("B", 5)>>),
              AsList(<<Entry("A", 4), Entry("B", 6)>>)>>[k + 1]

\* pipe(batch, truncation=True, max_length=256): one result per text
Pipe(p, batch) == [j \in 1..Len(batch) |-> PipeResult(p, batch[j])]

Min(a, b) == IF a <= b THEN a ELSE b

\* mutant: a final batch shorter than n is never yielded
NextBatchNoTail(ts, i, n) ==
    IF i + n - 1 <= Len(ts) THEN SubSeq(ts, i, i + n - 1) ELSE <<>>

\* batched: the batch the generator yields when resumed with the i-th text
\* next: it collects texts until it holds n of them or the input ends, and
\* yields an unfinished batch only if it is not empty.
NextBatch(ts, i, n) == SubSeq(ts, i, Min(i + n - 1, Len(ts)))

\* A dict is the sequence of its items [label, value], in insertion order.
EmptyDict == <<>>

Keys(d) == {d[j].label : j \in 1..Len(d)}

\* d[l], for a key l of d
Get(d, l) == d[CHOOSE j \in 1..Len(d) : d[j].label = l].value

\* the position of key l in d
KeyIndex(d, l) == CHOOSE j \in 1..Len(d) : d[j].label = l

\* mutant: the score replaces the running sum
AggSet(a, d) ==
    IF d.label \in Keys(a)
    THEN [a EXCEPT ![KeyIndex(a, d.label)].value = d.score]
    ELSE Append(a, [label |-> d.label, value |-> d.score])

\* agg[d['label']] = agg.get(d['label'], 0.0) + float(d['score'])
AggAdd(a, d) ==
    IF d.label \in Keys(a)
    THEN [a EXCEPT ![KeyIndex(a, d.label)].value = @ + d.score]
    ELSE Append(a, [label |-> d.label, value |-> 0 + d.score])

RECURSIVE AggAddAll(_, _, _)
AggAddAll(a, items, j) ==
    IF j > Len(items) THEN a ELSE AggAddAll(AggAdd(a, items[j]), items, j + 1)

\* the body of `for res in outs` in run_pipe_avg_scores, on st = [agg, count]
AvgStep(st, res) ==
    [agg   |-> IF res.kind = "list" THEN AggAddAll(st.agg, res.items, 1)
               ELSE IF res.kind = "dict" THEN AggAdd(st.agg, res.items[1])
               ELSE st.agg,
     count |-> st.count + 1]

\* `for res in outs` over outs[lo..hi], in order.  The range is halved, and
\* the state after the first half is inspected before the second half runs,
\* only to keep the evaluation shallow: the steps and their order are the
\* loop's.
RECURSIVE AvgFold(_, _, _, _)
AvgFold(outs, lo, hi, st) ==
    IF lo > hi THEN st
    ELSE IF lo = hi THEN AvgStep(st, outs[lo])
    ELSE LET mid  == (lo + hi) \div 2
             left == AvgFold(outs, lo, mid, st)
         IN  IF left.count >= 0 /\ Len(left.agg) >= 0
             THEN AvgFold(outs, mid + 1, hi, left)
             ELSE left

\* mutant: each label's sum is returned undivided
AvgFinishNoDivision(a, c) ==
    IF c = 0 THEN EmptyDict
    ELSE [j \in 1..Len(a) |->
             [label |-> a[j].label, value |-> [num |-> a[j].value, den |-> 1]]]

\* if count == 0: return {};  return {k: v / count for k, v in agg.items()}
AvgFinish(a, c) ==
    IF c = 0 THEN EmptyDict
    ELSE [j \in 1..Len(a) |->
             [label |-> a[j].label, value |-> [num |-> a[j].value, den |-> c]]]

\* max(res, key=lambda d: d['score']): the first entry of maximal score
BestOf(items) ==
    items[CHOOSE j \in 1..Len(items) :
              /\ \A k \in 1..Len(items) : items[k].score <= items[j].score
              /\ \A k \in 1..(j - 1) : items[k].score < items[j].score]

\* mutant: a score equal to the threshold does not count
FracIsPositiveStrict(lab, score, labels, thr) ==
    \/ (~labels.given /\ score > thr)
    \/ (labels.given /\ labels.set # {} /\ lab \in labels.set /\ score > thr)

\* (positive_labels is None and score >= threshold) or (positive_labels and
\*  lab in positive_labels and score >= threshold)
FracIsPositive(lab, score, labels, thr) ==
    \/ (~labels.given /\ score >= thr)
    \/ (labels.given /\ labels.set # {} /\ lab \in labels.set /\ score >= thr)

\* the body of `for res in outs` in run_pipe_frac_above, on st = [pos, total]
FracStep(st, res, labels, thr) ==
    LET best == IF res.kind = "list" THEN BestOf(res.items) ELSE res.items[1]
    IN  [pos   |-> IF FracIsPositive(best.label, best.score, labels, thr)
                   THEN st.pos + 1 ELSE st.pos,
         total |-> st.total + 1]

\* `for res in outs` over outs[lo..hi], in order
RECURSIVE FracFold(_, _, _, _, _, _)
FracFold(outs, lo, hi, st, labels, thr) ==
    IF lo > hi THEN st
    ELSE IF lo = hi THEN FracStep(st, outs[lo], labels, thr)
    ELSE LET mid  == (lo + hi) \div 2
             left == FracFold(outs, lo, mid, st, labels, thr)
         IN  IF left.total >= 0 /\ left.pos >= 0
             THEN FracFold(outs, mid + 1, hi, left, labels, thr)
             ELSE left

\* return (pos / total) if total else 0.0
FracFinish(p, t) ==
    IF t # 0 THEN [num |-> p, den |-> t] ELSE [num |-> 0, den |-> 1]

\* The pattern p repeated to n texts.
Cycle(p, n) == [i \in 1..n |-> p[((i - 1) % Len(p)) + 1]]

TextPatterns ==
    {<<0>>, <<1>>, <<2>>, <<3>>, <<0, 1>>, <<2, 1>>, <<3, 2>>, <<0, 3>>,
     <<0, 1, 2, 3>>}

NoLabels == [given |-> FALSE, set |-> {}]

LabelChoices ==
    {NoLabels} \cup {[given |-> TRUE, set |-> S] : S \in {{}, {"A"}, {"B"}}}

InitAgg ==
    /\ IdleRest
    /\ IdleSplit
    /\ IdleAdapters
    /\ max_n = Idle /\ sampled = Idle
    /\ pc = "loop"
    /\ \E p \in TextPatterns, n \in 0..MaxTexts : texts = Cycle(p, n)
    /\ pipe \in PipeModels
    /\ \/ /\ fn = "avg"
          /\ positive_labels = NoLabels
          /\ threshold = DefaultThreshold
       \/ /\ fn = "frac"
          /\ positive_labels \in LabelChoices
          /\ threshold \in {DefaultThreshold, DefaultThreshold + 1}
    /\ fail_at = 0
    /\ it = 1
    /\ calls = <<>>
    /\ agg = EmptyDict
    /\ count = 0
    /\ pos = 0
    /\ total = 0
    /\ result = None

\* the k-th invocation pipe(batch, ...) raises
PipeRaises(k, f) == f = k

\* mutant: the loop goes on after the exception
AfterRaiseGoOn(at) == at

\* where the call is once the exception of pipe has left the function,
\* which has no try around the invocation
AfterRaise(at) == "raised"

aggArgs == <<fn, pipe, positive_labels, threshold, texts, fail_at>>

\* One iteration of `for batch in batched(texts, 32)`: the generator yields
\* the next batch, the model is invoked on it and its results are summed.
AvgBatch ==
    /\ pc = "loop" /\ fn = "avg"
    /\ LET batch == NextBatch(texts, it, AvgBatchSize)
           st    == AvgFold(Pipe(pipe, batch), 1, Len(batch),
                            [agg |-> agg, count |-> count])
       IN  /\ batch # <<>>
           /\ ~PipeRaises(Len(calls) + 1, fail_at)
           /\ calls' = Append(calls, batch)
           /\ it' = it + Len(batch)
           /\ agg' = st.agg
           /\ count' = st.count
    /\ UNCHANGED <<restVars, pc, aggArgs, pos, total, result, splitVars, sampleVars, adapterVars>>

\* The generator is exhausted: run_pipe_avg_scores returns.
AvgReturn ==
    /\ pc = "loop" /\ fn = "avg"
    /\ NextBatch(texts, it, AvgBatchSize) = <<>>
    /\ result' = AvgFinish(agg, count)
    /\ pc' = "done"
    /\ UNCHANGED <<restVars, aggArgs, it, calls, agg, count, pos, total, splitVars,
                   sampleVars, adapterVars>>

\* One iteration of `for batch in batched(texts, 64)`.
FracBatch ==
    /\ pc = "loop" /\ fn = "frac"
    /\ LET batch == NextBatch(texts, it, FracBatchSize)
           st    == FracFold(Pipe(pipe, batch), 1, Len(batch),
                             [pos |-> pos, total |-> total],
                             positive_labels, threshold)
       IN  /\ batch # <<>>
           /\ ~PipeRaises(Len(calls) + 1, fail_at)
           /\ calls' = Append(calls, batch)
           /\ it' = it + Len(batch)
           /\ pos' = st.pos
           /\ total' = st.total
    /\ UNCHANGED <<restVars, pc, aggArgs, agg, count, result, splitVars, sampleVars, adapterVars>>

\* The generator is exhausted: run_pipe_frac_above returns.
FracReturn ==
    /\ pc = "loop" /\ fn = "frac"
    /\ NextBatch(texts, it, FracBatchSize) = <<>>
    /\ result' = FracFinish(pos, total)
    /\ pc' = "done"
    /\ UNCHANGED <<restVars, aggArgs, it, calls, agg, count, pos, total, splitVars,
                   sampleVars, adapterVars>>

NextAgg == AvgBatch \/ AvgReturn \/ FracBatch \/ FracReturn

SpecAgg == InitAgg /\ [][NextAgg]_vars

\* the text counts of the calls in which the model may raise: around one
\* and two batches of either size
FailLengths == {0, 1, 32, 33, 64, 65, 66}

FailChoices == 0..3

InitAggFail ==
    /\ IdleRest
    /\ IdleSplit
    /\ IdleAdapters
    /\ max_n = Idle /\ sampled = Idle
    /\ pc = "loop"
    /\ \E p \in TextPatterns, n \in FailLengths : texts = Cycle(p, n)
    /\ pipe \in PipeModels
    /\ \/ /\ fn = "avg"
          /\ positive_labels = NoLabels
          /\ threshold = DefaultThreshold
       \/ /\ fn = "frac"
          /\ positive_labels \in LabelChoices
          /\ threshold = DefaultThreshold
    /\ fail_at \in FailChoices
    /\ it = 1
    /\ calls = <<>>
    /\ agg = EmptyDict
    /\ count = 0
    /\ pos = 0
    /\ total = 0
    /\ result = None

\* `outs = pipe(batch, ...)` raises in run_pipe_avg_scores: the generator
\* has yielded the batch, the model was invoked, nothing was summed
AvgRaise ==
    /\ pc = "loop" /\ fn = "avg"
    /\ LET batch == NextBatch(texts, it, AvgBatchSize)
       IN  /\ batch # <<>>
           /\ PipeRaises(Len(calls) + 1, fail_at)
           /\ calls' = Append(calls, batch)
    /\ pc' = AfterRaise(pc)
    /\ UNCHANGED <<restVars, aggArgs, it, agg, count, pos, total, result,
                   splitVars, sampleVars, adapterVars>>

\* `outs = pipe(batch, ...)` raises in run_pipe_frac_above
FracRaise ==
    /\ pc = "loop" /\ fn = "frac"
    /\ LET batch == NextBatch(texts, it, FracBatchSize)
       IN  /\ batch # <<>>
           /\ PipeRaises(Len(calls) + 1, fail_at)
           /\ calls' = Append(calls, batch)
    /\ pc' = AfterRaise(pc)
    /\ UNCHANGED <<restVars, aggArgs, it, agg, count, pos, total, result,
                   splitVars, sampleVars, adapterVars>>

NextAggFail == NextAgg \/ AvgRaise \/ FracRaise

SpecAggFail == InitAggFail /\ [][NextAggFail]_vars

----------------------------------------------------------------------------
(* sentiment_analysis_cli.main                                             *)
(*                                                                         *)
(* msgs is what the HTML adapter returned: messages sorted by date.  Here  *)
(* a message is [date, text]: date in seconds, text = [len, kind] with len *)
(* the length of the stripped text and kind the text the models see.  The  *)
(* three pipelines are built with top_k=None: each returns every label's   *)
(* score; label "A" of the toxicity model stands for 'toxic'.              *)

MaxMainMsgs == 3

MinLen == 5

MainTimes == {0, 60, 3000}

MainTexts ==
    {[len |-> 0, kind |-> 0], [len |-> 4, kind |-> 1], [len |-> 5, kind |-> 2]}

MainGaps == {0, 30}

MainCaps == {-1, 0, 1, 200}

MainTotals == {0, 2}

MainRaiseChoices == {0, 2, 5}

EmoPipe == "all_scores"

ToxPipe == "all_scores"

SensPipe == "all_scores"

ToxicLabels == [given |-> TRUE, set |-> {"A"}]

\* [m.text.strip() for m in msgs if m.text and len(m.text.strip()) >= min_len]
RECURSIVE normalize_texts(_)
normalize_texts(ms) ==
    IF ms = <<>> THEN <<>>
    ELSE LET m == Head(ms)
         IN  (IF m.text.len > 0 /\ m.text.len >= MinLen
              THEN <<m.text.kind>> ELSE <<>>)
                 \o normalize_texts(Tail(ms))

\* run_pipe_avg_scores(pipe, texts), as a function of its arguments
run_pipe_avg_scores(p, ts) ==
    LET st == AvgFold(Pipe(p, ts), 1, Len(ts), [agg |-> EmptyDict, count |-> 0])
    IN  AvgFinish(st.agg, st.count)

\* run_pipe_frac_above(pipe, texts, positive_labels), default threshold
run_pipe_frac_above(p, ts, labels) ==
    LET st == FracFold(Pipe(p, ts), 1, Len(ts), [pos |-> 0, total |-> 0],
                       labels, DefaultThreshold)
    IN  FracFinish(st.pos, st.total)

\* the number of batches batched(texts, size) yields
Batches(n, size) == (n + size - 1) \div size

\* the model invocations of the three aggregator calls on n texts
InvocationsFor(n) ==
    Batches(n, AvgBatchSize) + Batches(n, FracBatchSize)
        + Batches(n, AvgBatchSize)

\* the dict appended to rows for the run conv at index i, on the texts ts
Row(i, conv, ts) ==
    [conversation_id |-> i,
     start           |-> conv[1].date,
     end             |-> conv[Len(conv)].date,
     duration_min    |-> [num |-> conv[Len(conv)].date - conv[1].date,
                          den |-> SecondsPerMinute],
     num_messages    |-> Len(conv),
     num_texts_used  |-> Len(ts),
     toxicity_rate   |-> run_pipe_frac_above(ToxPipe, ts, ToxicLabels),
     emo             |-> run_pipe_avg_scores(EmoPipe, ts),
     topic           |-> run_pipe_avg_scores(SensPipe, ts)]

\* sort_values(['start']): rows in non-decreasing start, equal starts in
\* their order in rows
RECURSIVE InsertByStart(_, _)
InsertByStart(sorted, r) ==
    IF sorted = <<>> THEN <<r>>
    ELSE IF sorted[Len(sorted)].start <= r.start THEN Append(sorted, r)
    ELSE Append(InsertByStart(SubSeq(sorted, 1, Len(sorted) - 1), r),
                sorted[Len(sorted)])

RECURSIVE SortByStart(_, _, _)
SortByStart(rs, i, acc) ==
    IF i > Len(rs) THEN acc
    ELSE SortByStart(rs, i + 1, InsertByStart(acc, rs[i]))

File(name, content) == [file |-> name, content |-> content]

MainSortedTimes ==
    {s \in SeqsUpTo(MainTimes, MaxMainMsgs) :
        \A i \in 1..(Len(s) - 1) : s[i] <= s[i + 1]}

MainInputs ==
    {[i \in 1..Len(s) |-> [date |-> s[i], text |-> t[i]]] :
        <<s, t>> \in {p \in MainSortedTimes \X SeqsUpTo(MainTexts, MaxMainMsgs) :
                         Len(p[1]) = Len(p[2])}}

InitMain ==
    /\ IdleMsg /\ resolved = Idle /\ IdlePlot /\ IdleTicks
    /\ IdleSample
    /\ IdleAgg
    /\ IdleAdapters
    /\ pc = "start"
    /\ export_exists \in BOOLEAN
    /\ messages \in MainInputs
    /\ gap_minutes \in MainGaps
    /\ max_per_convo \in MainCaps
    /\ max_total \in MainTotals
    /\ raise_at \in MainRaiseChoices
    /\ convos = None
    /\ invocations = 0
    /\ idx = 0
    /\ rows = <<>>
    /\ written = <<>>

mainArgs == <<export_exists, messages, gap_minutes, max_per_convo, max_total, raise_at>>

mainOthers ==
    <<msgVars, resolved, plotVars, tickVars, texts, sampleVars, aggVars, adapterVars>>

\* if not export_path.exists(): raise SystemExit
MainNoExport ==
    /\ pc = "start"
    /\ ~export_exists
    /\ pc' = "raised"
    /\ UNCHANGED <<mainArgs, mainOthers, convos, invocations, idx, rows,
                   written>>

\* msgs = get_mymessages_from_html(...);
\* conversations = split_into_conversations(msgs, args.gap_min); rows = []
MainSplit ==
    /\ pc = "start"
    /\ export_exists
    /\ convos' = split_into_conversations(messages, gap_minutes)
    /\ pc' = "rows"
    /\ UNCHANGED <<mainArgs, mainOthers, invocations, idx, rows, written>>

\* mutant: the iteration saves the rows it has so far
MainRowWriting ==
    /\ pc = "rows"
    /\ idx < Len(convos)
    /\ LET conv      == convos[idx + 1]
           texts_all == normalize_texts(conv)
           picked    == sample_texts(texts_all, max_per_convo)
           needed    == InvocationsFor(Len(picked.val))
       IN  IF texts_all = <<>>
           THEN /\ idx' = idx + 1
                /\ UNCHANGED <<pc, invocations, rows, written>>
           ELSE IF picked.exc # None
           THEN /\ pc' = "raised"
                /\ UNCHANGED <<invocations, idx, rows, written>>
           ELSE IF invocations < raise_at /\ raise_at <= invocations + needed
           THEN /\ pc' = "raised"
                /\ invocations' = raise_at
                /\ UNCHANGED <<idx, rows, written>>
           ELSE /\ rows' = Append(rows, Row(idx, conv, picked.val))
                /\ written' = <<File("sentiment_topics_by_conversation.csv",
                                     SortByStart(rows', 1, <<>>))>>
                /\ invocations' = invocations + needed
                /\ idx' = idx + 1
                /\ UNCHANGED pc
    /\ UNCHANGED <<mainArgs, mainOthers, convos>>

\* one iteration of `for idx, conv in enumerate(conversations)`
MainRow ==
    /\ pc = "rows"
    /\ idx < Len(convos)
    /\ LET conv      == convos[idx + 1]
           texts_all == normalize_texts(conv)
           picked    == sample_texts(texts_all, max_per_convo)
           needed    == InvocationsFor(Len(picked.val))
       IN  IF texts_all = <<>>
           THEN /\ idx' = idx + 1
                /\ UNCHANGED <<pc, invocations, rows>>
           ELSE IF picked.exc # None
           THEN /\ pc' = "raised"
                /\ UNCHANGED <<invocations, idx, rows>>
           ELSE IF invocations < raise_at /\ raise_at <= invocations + needed
           THEN /\ pc' = "raised"
                /\ invocations' = raise_at
                /\ UNCHANGED <<idx, rows>>
           ELSE /\ rows' = Append(rows, Row(idx, conv, picked.val))
                /\ invocations' = invocations + needed
                /\ idx' = idx + 1
                /\ UNCHANGED pc
    /\ UNCHANGED <<mainArgs, mainOthers, convos, written>>

\* df = pd.DataFrame(rows).sort_values(['start']).reset_index(drop=True);
\* df.to_csv(out_csv, index=False).  A frame built from no rows has no
\* column 'start': sort_values raises KeyError.
MainWriteCsv ==
    /\ pc = "rows"
    /\ idx = Len(convos)
    /\ IF rows = <<>>
       THEN /\ pc' = "raised"
            /\ UNCHANGED written
       ELSE /\ written' = Append(written,
                    File("sentiment_topics_by_conversation.csv",
                         SortByStart(rows, 1, <<>>)))
            /\ pc' = "rollup"
    /\ UNCHANGED <<mainArgs, mainOthers, convos, invocations, idx, rows>>

\* the whole-chat rollup and its three files
MainRollup ==
    /\ pc = "rollup"
    /\ LET picked == sample_texts(normalize_texts(messages), max_total)
           needed == InvocationsFor(Len(picked.val))
       IN  IF picked.exc # None
           THEN /\ pc' = "raised"
                /\ UNCHANGED <<invocations, written>>
           ELSE IF invocations < raise_at /\ raise_at <= invocations + needed
           THEN /\ pc' = "raised"
                /\ invocations' = raise_at
                /\ UNCHANGED written
           ELSE /\ invocations' = invocations + needed
                /\ written' = written \o
                     <<File("overall_emotions.csv",
                            run_pipe_avg_scores(EmoPipe, picked.val)),
                       File("overall_topics.csv",
                            run_pipe_avg_scores(SensPipe, picked.val)),
                       File("overall_toxicity.txt",
                            run_pipe_frac_above(ToxPipe, picked.val,
                                                ToxicLabels))>>
                /\ pc' = "done"
    /\ UNCHANGED <<mainArgs, mainOthers, convos, idx, rows>>

NextMain ==
    \/ MainNoExport
    \/ MainSplit
    \/ MainRow
    \/ MainWriteCsv
    \/ MainRollup

SpecMain == InitMain /\ [][NextMain]_vars

----------------------------------------------------------------------------
(* plotter._get_plot_data                                                  *)
(*                                                                         *)
(* A date is a day number: day 0 is Monday 1 January 2024.  A message is   *)
(* [date |-> d].  A float is the fraction [num, den]; an int n is          *)
(* [num |-> n, den |-> 1].                                                 *)
(*                                                                         *)
(* structure_tools and misc.months_border are not part of the sources at   *)
(* hand.  The bucketing follows the specification: monthly buckets when    *)
(* the sequence spans more calendar months than the threshold, weekly      *)
(* buckets otherwise; buckets are calendar-aligned, contiguous and         *)
(* ordered, from the bucket of the first message to that of the last.      *)

MaxPlotMsgs == 3

PlotDays == {2, 8, 20, 31, 45, 60, 100, 130}

MonthLengths == <<31, 29, 31, 30, 31, 30>>

DaysPerWeek == 7

months_border == 2

\* the day number of the first day of month m
RECURSIVE MonthStart(_)
MonthStart(m) == IF m = 1 THEN 0 ELSE MonthStart(m - 1) + MonthLengths[m - 1]

\* the month a day falls in
MonthOf(d) ==
    CHOOSE m \in 1..Len(MonthLengths) :
        MonthStart(m) <= d /\ d < MonthStart(m) + MonthLengths[m]

\* the Monday of the week a day falls in
WeekStart(d) == d - (d % DaysPerWeek)

\* stools.count_months(msgs): the calendar months the sequence spans
count_months(ms) == MonthOf(ms[Len(ms)].date) - MonthOf(ms[1].date) + 1

\* the messages of ms whose date d satisfies lo <= d < hi, in order
RECURSIVE Between(_, _, _)
Between(ms, lo, hi) ==
    IF ms = <<>> THEN <<>>
    ELSE (IF lo <= Head(ms).date /\ Head(ms).date < hi
          THEN <<Head(ms)>> ELSE <<>>) \o Between(Tail(ms), lo, hi)

\* a bucket: its first day and its messages
Bucket(key, ms) == [key |-> key, value |-> ms]

\* stools.get_messages_per_month(msgs): first day of the month -> messages
get_messages_per_month(ms) ==
    LET first == MonthOf(ms[1].date)
        last  == MonthOf(ms[Len(ms)].date)
    IN  [k \in 1..(last - first + 1) |->
            Bucket(MonthStart(first + k - 1),
                   Between(ms, MonthStart(first + k - 1),
                           MonthStart(first + k - 1)
                               + MonthLengths[first + k - 1]))]

\* stools.get_messages_per_week(msgs): Monday of the week -> messages
get_messages_per_week(ms) ==
    LET first == WeekStart(ms[1].date)
        last  == WeekStart(ms[Len(ms)].date)
    IN  [k \in 1..((last - first) \div DaysPerWeek + 1) |->
            Bucket(first + (k - 1) * DaysPerWeek,
                   Between(ms, first + (k - 1) * DaysPerWeek,
                           first + k * DaysPerWeek))]

Max(a, b) == IF a >= b THEN a ELSE b

IntValue(n) == [num |-> n, den |-> 1]

\* a / 2
HalfOf(a) == [num |-> a, den |-> 2]

\* mutant: the offsets without the max
XticksUnclamped(buckets, start_date) ==
    [k \in 1..Len(buckets) |-> buckets[k].key - start_date]

\* max(0, (month - start_date).days), for every key of the buckets
Xticks(buckets, start_date) ==
    [k \in 1..Len(buckets) |-> Max(0, buckets[k].key - start_date)]

\* mutant: the midpoint of the bucket's start and the previous bucket's
InteriorXPrevious(xticks, i) == HalfOf(xticks[i] + xticks[i + 1])

\* (xticks[i] + xticks[i + 1]) / 2, for the 0-based index i
InteriorX(xticks, i) == HalfOf(xticks[i + 1] + xticks[i + 2])

\* x = [... for i in range(1, len(xticks) - 1)]; x.insert(0, xticks[0]);
\* if len(y) > 1: x.append((xticks[-1] + (end_date - start_date).days) / 2)
PlotX(xticks, y, start_date, end_date) ==
    LET inner == [k \in 1..Max(0, Len(xticks) - 2) |-> InteriorX(xticks, k)]
        pinned == <<IntValue(xticks[1])>> \o inner
    IN  IF Len(y) > 1
        THEN Append(pinned,
                    HalfOf(xticks[Len(xticks)] + (end_date - start_date)))
        ELSE pinned

\* _get_plot_data(msgs): [xticks, x, y]
_get_plot_data(ms) ==
    LET start_date == ms[1].date
        end_date   == ms[Len(ms)].date
        buckets    == IF count_months(ms) > months_border
                      THEN get_messages_per_month(ms)
                      ELSE get_messages_per_week(ms)
        xticks     == Xticks(buckets, start_date)
        y          == [k \in 1..Len(buckets) |-> buckets[k].value]
    IN  [xticks |-> xticks,
         x      |-> PlotX(xticks, y, start_date, end_date),
         y      |-> y]

\* message sequences sorted by date, not empty
PlotInputs ==
    {[i \in 1..Len(s) |-> [date |-> s[i]]] :
        s \in {t \in SeqsUpTo(PlotDays, MaxPlotMsgs) :
                  /\ t # <<>>
                  /\ \A i \in 1..(Len(t) - 1) : t[i] <= t[i + 1]}}

InitPlot ==
    /\ IdleMsg /\ resolved = Idle /\ IdleMain /\ IdleTicks
    /\ IdleSplit
    /\ IdleSample
    /\ IdleAgg
    /\ IdleAdapters
    /\ pc = "start"
    /\ plot_msgs \in PlotInputs
    /\ plot_xticks = None
    /\ plot_x = None
    /\ plot_y = None

\* x, y = _get_plot_data(msgs)
GetPlotData ==
    /\ pc = "start"
    /\ LET r == _get_plot_data(plot_msgs)
       IN  /\ plot_xticks' = r.xticks
           /\ plot_x' = r.x
           /\ plot_y' = r.y
    /\ pc' = "done"
    /\ UNCHANGED <<plot_msgs, tickVars, msgVars, resolved, mainVars, splitVars, texts,
                   sampleVars, aggVars, adapterVars>>

NextPlot == GetPlotData

SpecPlot == InitPlot /\ [][NextPlot]_vars

----------------------------------------------------------------------------
(* plotter._get_xticks                                                     *)
(*                                                                         *)
(* stools.get_months / get_weeks give the first days of the buckets, the   *)
(* keys of get_messages_per_month / get_messages_per_week.  The label of a *)
(* tick is the text of its date, <<d>>; the blank label "" is <<>>.        *)

TickDays == PlotDays \cup {22, 26}

BlankLabel == <<>>

MonthCropDays == 10

WeekCropDays == 3

\* stools.get_months(msgs)
get_months(ms) ==
    [k \in 1..Len(get_messages_per_month(ms)) |->
        get_messages_per_month(ms)[k].key]

\* stools.get_weeks(msgs)
get_weeks(ms) ==
    [k \in 1..Len(get_messages_per_week(ms)) |->
        get_messages_per_week(ms)[k].key]

\* stools.date_months_to_str_months / date_days_to_str_days
DatesToStr(dates) == [k \in 1..Len(dates) |-> <<dates[k]>>]

\* xticks_labels[0] = ""
BlankFirst(labels) == [labels EXCEPT ![1] = BlankLabel]

\* len(weeks_ticks) > 2 and (weeks_ticks[1] - start_date).days < 3 and crop
WeekCrops(weeks_ticks, start_date, crp) ==
    /\ Len(weeks_ticks) > 2
    /\ weeks_ticks[2] - start_date < WeekCropDays
    /\ crp

\* (months_ticks[1] - start_date).days < 10 and crop; months_ticks[1] of a
\* list with one element raises IndexError
MonthCrops(months_ticks, start_date, crp) ==
    /\ months_ticks[2] - start_date < MonthCropDays
    /\ crp

\* _get_xticks(msgs, crop): [exc, xticks, xticks_labels, xlabel]
_get_xticks(ms, crp) ==
    LET start_date == ms[1].date
    IN  IF count_months(ms) > months_border
        THEN LET months_ticks == get_months(ms)
                 labels       == DatesToStr(months_ticks)
             IN  IF Len(months_ticks) < 2
                 THEN [exc |-> "IndexError", xticks |-> <<>>,
                       xticks_labels |-> <<>>, xlabel |-> "Month"]
                 ELSE [exc    |-> None,
                       xticks |-> [k \in 1..Len(months_ticks) |->
                                      Max(0, months_ticks[k] - start_date)],
                       xticks_labels |->
                           IF MonthCrops(months_ticks, start_date, crp)
                           THEN BlankFirst(labels) ELSE labels,
                       xlabel |-> "Month"]
        ELSE LET weeks_ticks == get_weeks(ms)
                 labels      == DatesToStr(weeks_ticks)
             IN  [exc    |-> None,
                  xticks |-> [k \in 1..Len(weeks_ticks) |->
                                 Max(0, weeks_ticks[k] - start_date)],
                  xticks_labels |->
                      IF WeekCrops(weeks_ticks, start_date, crp)
                      THEN BlankFirst(labels) ELSE labels,
                  xlabel |-> "week"]

TickInputs ==
    {[i \in 1..Len(s) |-> [date |-> s[i]]] :
        s \in {t \in SeqsUpTo(TickDays, MaxPlotMsgs) :
                  /\ t # <<>>
                  /\ \A i \in 1..(Len(t) - 1) : t[i] <= t[i + 1]}}

InitTicks ==
    /\ IdleMsg /\ resolved = Idle /\ IdleMain
    /\ IdleSplit
    /\ IdleSample
    /\ IdleAgg
    /\ IdleAdapters
    /\ pc = "start"
    /\ plot_msgs \in TickInputs
    /\ plot_xticks = Idle /\ plot_x = Idle /\ plot_y = Idle
    /\ crop \in BOOLEAN
    /\ ticks = None

\* xticks, xticks_labels, xlabel = _get_xticks(msgs, crop)
GetXticks ==
    /\ pc = "start"
    /\ ticks' = _get_xticks(plot_msgs, crop)
    /\ pc' = IF ticks'.exc = None THEN "done" ELSE "raised"
    /\ UNCHANGED <<crop, plotVars, msgVars, resolved, mainVars, splitVars,
                   texts, sampleVars, aggVars, adapterVars>>

NextTicks == GetXticks

SpecTicks == InitTicks /\ [][NextTicks]_vars


----------------------------------------------------------------------------
\* The number of input texts of kind k.
KindCount(k) == Cardinality({i \in 1..Len(texts) : texts[i] = k})

\* The score the model gives label l on a text of kind k (0 if none).
RECURSIVE ScoreIn(_, _, _)
ScoreIn(items, j, l) ==
    IF j > Len(items) THEN 0
    ELSE (IF items[j].label = l THEN items[j].score ELSE 0)
            + ScoreIn(items, j + 1, l)

LabelScore(k, l) == ScoreIn(PipeResult(pipe, k).items, 1, l)

\* The labels the model produces for a text of kind k.
LabelsOf(k) ==
    {PipeResult(pipe, k).items[j].label :
        j \in 1..Len(PipeResult(pipe, k).items)}

\* C8: run_pipe_avg_scores returns, for every label produced for at least
\* one text, the sum of the label's scores over all texts divided by the
\* number of texts, however the texts fall into batches; for no texts it
\* returns the empty mapping; scores 1.0, 0.0, 0.5, 0.2 give 1.7 / 4.
AvgIsSumOverCount ==
    (pc = "done" /\ fn = "avg") =>
        /\ Len(texts) = 0 => result = EmptyDict
        /\ Len(texts) > 0 =>
              /\ Keys(result) = UNION {LabelsOf(texts[i]) : i \in 1..Len(texts)}
              /\ Cardinality(Keys(result)) = Len(result)
              /\ \A l \in Keys(result) :
                    /\ Get(result, l).den = Len(texts)
                    /\ Get(result, l).num =
                          KindCount(0) * LabelScore(0, l)
                              + KindCount(1) * LabelScore(1, l)
                              + KindCount(2) * LabelScore(2, l)
                              + KindCount(3) * LabelScore(3, l)
        /\ (texts = <<0, 1, 2, 3>> /\ pipe = "top1") =>
              result = <<[label |-> "A", value |-> [num |-> 17, den |-> 4]]>>

AvgWitness ==
    /\ pc = "done" /\ fn = "avg"
    /\ pipe = "top1_mixed"
    /\ Len(calls) = 2
    /\ Keys(result) = {"A", "B"}
    /\ Get(result, "A").num > 0
    /\ Get(result, "A").den = Len(texts)
    /\ KindCount(0) < Len(texts)

BatchSizeOf(f) == IF f = "avg" THEN AvgBatchSize ELSE FracBatchSize

\* C9: both aggregators invoke the model once per batch, in order, on the
\* consecutive slices of the texts of the fixed size (32 or 64), the last
\* slice alone being possibly shorter and none empty: n texts make
\* ceil(n / size) invocations, and no texts make none.
BatchesPartitionTexts ==
    fn \in {"avg", "frac"} =>
        LET size == BatchSizeOf(fn)
            n    == Len(texts)
        IN  /\ \A k \in 1..Len(calls) :
                  /\ calls[k] = SubSeq(texts, (k - 1) * size + 1, Min(k * size, n))
                  /\ calls[k] # <<>>
                  /\ k < Len(calls) => Len(calls[k]) = size
            /\ pc = "done" =>
                  /\ Len(calls) = (n + size - 1) \div size
                  /\ Concat(calls) = texts
                  /\ n = 0 => calls = <<>>

BatchesWitness ==
    /\ pc = "done" /\ fn = "avg"
    /\ Len(calls) = 3
    /\ Len(calls[1]) = AvgBatchSize
    /\ Len(calls[3]) = 2

\* The top-scoring entry of a result, the earliest one among equal scores.
TopEntry(r) ==
    LET tops == {j \in 1..Len(r.items) :
                    \A k \in 1..Len(r.items) : r.items[k].score <= r.items[j].score}
    IN  r.items[CHOOSE j \in tops : \A k \in tops : j <= k]

CountsAsPositive(k) ==
    LET e == TopEntry(PipeResult(pipe, k))
    IN  /\ e.score >= threshold
        /\ positive_labels.given => e.label \in positive_labels.set

\* C10: run_pipe_frac_above counts a text as positive iff its top label's
\* score meets the threshold and, when a target-label set is given, the top
\* label is in the set; it returns positives / total, within [0, 1], and 0.0
\* for no texts.
FracIsPositivesOverTotal ==
    (pc = "done" /\ fn = "frac") =>
        /\ Len(texts) = 0 => result = [num |-> 0, den |-> 1]
        /\ Len(texts) > 0 =>
              /\ result.den = Len(texts)
              /\ result.num =
                    Cardinality({i \in 1..Len(texts) : CountsAsPositive(texts[i])})
        /\ 0 <= result.num /\ result.num <= result.den /\ result.den > 0

FracWitness ==
    /\ pc = "done" /\ fn = "frac"
    /\ pipe = "all_scores"
    /\ positive_labels = [given |-> TRUE, set |-> {"B"}]
    /\ threshold = DefaultThreshold
    /\ Len(calls) = 2
    /\ KindCount(2) > 0
    /\ 0 < result.num /\ result.num < result.den

----------------------------------------------------------------------------
\* C1: every message either adapter builds from a raw record has
\* has_photo = False whenever it has has_sticker = True, whatever photo
\* marker ("photo" key, media_photo class) the record also carries.
StickerExcludesPhoto ==
    (pc = "done" /\ msg # <<>>) =>
        (msg[1].has_sticker = True => msg[1].has_photo = False)

\* The HTML adapter alone does keep the two flags exclusive.
HtmlStickerExcludesPhoto ==
    (pc = "done" /\ adapter = "html" /\ msg # <<>>) =>
        (msg[1].has_sticker = True => msg[1].has_photo = False)

\* A JSON record with both a "photo" and a "sticker_emoji" key has been
\* converted.
StickerWithPhotoMarker ==
    /\ pc = "done"
    /\ adapter = "json"
    /\ {"photo", "sticker_emoji"} \subseteq raw.keys
    /\ msg # <<>>

----------------------------------------------------------------------------
\* a raw JSON record that is a message with a parseable date
ValidRecord(r) == r.type = "message" /\ r.date.kind = "iso"

\* the number of valid records a shard file holds
ValidIn(c) ==
    IF c.state \in {"dict", "list"}
    THEN Cardinality({ i \in 1..Len(c.records) : ValidRecord(c.records[i]) })
    ELSE 0

\* C2: for a directory source, get_mymessages_from_export parses every
\* shard file once: no raw record contributes two messages, and the output
\* length is the number of valid records summed over the distinct shard
\* files.
ShardsParsedOnce ==
    (pc = "done" /\ adapter = "json" /\ source.kind = "dir") =>
        /\ \A i, j \in 1..Len(origins) :
              (origins[i].file = origins[j].file
                    /\ origins[i].rec = origins[j].rec) => i = j
        /\ Len(msg_list) = ValidIn(source.files["result.json"])
                              + ValidIn(source.files["messages.json"])
                              + ValidIn(source.files["messages2.json"])

\* A directory whose messages.json holds a valid record has been read.
MessagesJsonRead ==
    /\ pc = "done"
    /\ adapter = "json"
    /\ source.kind = "dir"
    /\ ValidIn(source.files["messages.json"]) > 0

\* the raw record of a came before the raw record of b: shards in listing
\* order, records in file order
EncounteredBefore(a, b) == a.pos < b.pos \/ (a.pos = b.pos /\ a.rec < b.rec)

\* C4: the output of either adapter has non-decreasing timestamps over the
\* whole output, and messages with equal timestamps are in the order in
\* which their raw records were encountered.
SortedAndStable ==
    pc = "done" =>
        \A i, j \in 1..Len(msg_list) :
            i < j =>
                LET a == msg_list[i].date
                    b == msg_list[j].date
                IN  /\ a.s < b.s \/ (a.s = b.s /\ a.us <= b.us)
                    /\ a = b => EncounteredBefore(origins[i], origins[j])

\* The output holds two messages with the same timestamp that come from
\* different shard files, and a message that was encountered after one
\* that follows it in the output.
SortedAndStableWitness ==
    /\ pc = "done"
    /\ \E i, j \in 1..Len(msg_list) :
          /\ i < j
          /\ msg_list[i].date = msg_list[j].date
          /\ origins[i].pos # origins[j].pos
    /\ \E i, j \in 1..Len(msg_list) :
          /\ i < j
          /\ EncounteredBefore(origins[j], origins[i])

----------------------------------------------------------------------------
\* C3: for every message sequence an adapter can produce, get_msgs applied
\* to what store_msgs wrote succeeds and returns a sequence equal to the
\* stored one, field for field.
StoreRoundTrip ==
    pc \in {"done", "raised"} => (pc = "done" /\ loaded = msg_list)

\* Restricted to timestamps without a sub-second part, the round trip does
\* reproduce the sequence.
StoreRoundTripWholeSeconds ==
    (pc \in {"done", "raised"}
        /\ \A i \in 1..Len(msg_list) : msg_list[i].date.us = 0) =>
            (pc = "done" /\ loaded = msg_list)

\* A stored sequence holding a timestamp with a sub-second part has been
\* read back.
SubSecondStored ==
    /\ pc \in {"done", "raised"}
    /\ \E i \in 1..Len(msg_list) : msg_list[i].date.us # 0

----------------------------------------------------------------------------
\* C11: when the model raises on batch k, the aggregator call fails: it
\* returns no value, batch k is invoked once only and no batch after k is
\* invoked; every batch before k was invoked once, in order.
FailFast ==
    /\ \A i \in 1..Len(calls) :
          calls[i] = NextBatch(texts, (i - 1) * BatchSizeOf(fn) + 1,
                               BatchSizeOf(fn))
    /\ fail_at \in 1..Len(calls) =>
          /\ pc = "raised"
          /\ result = None
          /\ Len(calls) = fail_at

\* The model raised on its second or third invocation, after texts of the
\* batches before had been summed.
FailFastWitness ==
    /\ pc = "raised"
    /\ fail_at >= 2
    /\ count + total > 0

----------------------------------------------------------------------------
\* the message as the constructor built it
Built == MyMessage(Args(kwargs)).val

\* C12: once a MyMessage is constructed no write the type exposes reassigns
\* a field: every attempt to assign an existing field fails, and every
\* field keeps the value it was constructed with.
FieldsNeverReassigned ==
    pc = "built" =>
        /\ \A k \in FieldNames : this[k] = Built[k]
        /\ (writes > 0 /\ last_op.key \in FieldNames) => last_op.raised

\* Attribute assignment alone does refuse every existing field.
SetAttrRefusesFields ==
    (pc = "built" /\ writes > 0 /\ last_op.op = "setattr"
        /\ last_op.key \in FieldNames) => last_op.raised

\* An item assignment to a field has been made.
ItemAssigned ==
    /\ pc = "built"
    /\ writes > 0
    /\ last_op.op = "setitem"
    /\ last_op.key \in FieldNames

\* whether the argument k was given as True
GivenTrue(k) ==
    k \in DOMAIN kwargs
        /\ kwargs[k] = (IF k = "has_video" THEN True ELSE Some(True))

\* C13: for every combination of has_video, has_video_message and
\* has_video_file (True, False or absent) the constructed message has
\* has_video = (has_video_message or has_video_file); a generic
\* has_video = True with no sub-kind set makes has_video_message True and
\* leaves has_video_file False; a sub-kind that is set leaves both as given.
VideoFlagsConsistent ==
    (pc = "built" /\ writes = 0) =>
        /\ this.has_video = PyOr(this.has_video_message, this.has_video_file)
        /\ (GivenTrue("has_video") /\ ~GivenTrue("has_video_message")
                /\ ~GivenTrue("has_video_file")) =>
              (this.has_video_message = True /\ this.has_video_file = False)
        /\ (GivenTrue("has_video_message") \/ GivenTrue("has_video_file")
                \/ ~GivenTrue("has_video")) =>
              /\ this.has_video_message = PyBool(GivenTrue("has_video_message"))
              /\ this.has_video_file = PyBool(GivenTrue("has_video_file"))

\* A message was built from has_video = True with has_video_message given
\* as False and has_video_file absent.
VideoFlagsWitness ==
    /\ pc = "built"
    /\ writes = 0
    /\ GivenTrue("has_video")
    /\ "has_video_message" \in DOMAIN kwargs
    /\ "has_video_file" \notin DOMAIN kwargs
    /\ ~GivenTrue("has_video_message")
    /\ this.has_video_message = True

----------------------------------------------------------------------------
\* C14: for every raw author label string and every pair of configured
\* identities, both resolvers return your_name when the label equals it,
\* target_name when the label equals that, and otherwise the label
\* unchanged.
AuthorRule ==
    (pc = "done" /\ raw # Nothing) =>
        resolved = (IF The(raw) = your_name THEN your_name
                    ELSE IF The(raw) = target_name THEN target_name
                    ELSE The(raw))

\* For a label that is not empty both resolvers do follow the rule.
AuthorRuleNonEmpty ==
    (pc = "done" /\ raw # Nothing /\ The(raw) # "") =>
        resolved = (IF The(raw) = your_name THEN your_name
                    ELSE IF The(raw) = target_name THEN target_name
                    ELSE The(raw))

\* The empty label has been resolved.
EmptyLabelResolved == pc = "done" /\ raw = Some("")

----------------------------------------------------------------------------
\* the block in the HTML source at position o
BlockAt(o) == source.files[o.file].records[o.rec]

\* the block carries an explicit author label
HasLabel(b) == b.from_name # Nothing /\ The(b.from_name) # ""

\* the positions <<file, record>>, in source order, of the blocks of the
\* files read that come before position o
PositionsBefore(o) ==
    LET names == _get_html_files(source)
    IN  { q \in (1..Len(names)) \X (1..MaxRecords) :
            /\ source.files[names[q[1]]].state = "ok"
            /\ q[2] <= Len(source.files[names[q[1]]].records)
            /\ q[1] < o.pos \/ (q[1] = o.pos /\ q[2] < o.rec) }

\* the author a block without label at position o inherits: the label of
\* the last of the blocks in `before`, the counterpart when there is none
Inherited(o, before) ==
    LET names == _get_html_files(source)
    IN  IF before = {} THEN target_name
        ELSE LET last == CHOOSE q \in before : \A x \in before :
                            x[1] < q[1] \/ (x[1] = q[1] /\ x[2] <= q[2])
             IN  The(source.files[names[last[1]]].records[last[2]].from_name)

LabelledBefore(o) ==
    LET names == _get_html_files(source)
    IN  { q \in PositionsBefore(o) :
            HasLabel(source.files[names[q[1]]].records[q[2]]) }

\* the labelled blocks before o that the adapter turned into a message
LabelledKeptBefore(o) ==
    { q \in LabelledBefore(o) :
        \E i \in 1..Len(origins) :
            origins[i].pos = q[1] /\ origins[i].rec = q[2] }

\* C15: in the HTML adapter a message block without an explicit author
\* label gets the author of the most recently seen explicit label among
\* the blocks before it, in source order across all files, and the
\* counterpart identity when no label was seen before it.
AuthorInherited ==
    (pc = "done" /\ adapter = "html") =>
        \A i \in 1..Len(msg_list) :
            ~HasLabel(BlockAt(origins[i])) =>
                msg_list[i].author =
                    Inherited(origins[i], LabelledBefore(origins[i]))

\* Counting only the labels of blocks that became messages, the rule
\* holds.
AuthorInheritedAmongKept ==
    (pc = "done" /\ adapter = "html") =>
        \A i \in 1..Len(msg_list) :
            ~HasLabel(BlockAt(origins[i])) =>
                msg_list[i].author =
                    Inherited(origins[i], LabelledKeptBefore(origins[i]))

\* A block without label follows a labelled block that was dropped.
LabelOnDroppedBlock ==
    /\ pc = "done"
    /\ adapter = "html"
    /\ \E i \in 1..Len(msg_list) :
          /\ ~HasLabel(BlockAt(origins[i]))
          /\ LabelledBefore(origins[i]) # LabelledKeptBefore(origins[i])

----------------------------------------------------------------------------
\* the item is a plain string or an object whose "text" is a string
IsTextual(seg) == seg.kind = "str" \/ seg.kind = "dict"

\* the texts of the first n textual items of segs, joined in list order
RECURSIVE JoinedUpTo(_, _)
JoinedUpTo(segs, n) ==
    IF n = 0 THEN ""
    ELSE JoinedUpTo(segs, n - 1)
            \o (IF IsTextual(segs[n]) THEN segs[n].text ELSE "")

\* C16: _coerce_text returns a plain string unchanged, for a segment list
\* the concatenation in list order of exactly the plain-string segments
\* and the string "text" fields of object segments, and for any other
\* value the empty string; [{text: "hi"}, {type: "bold", text: " there"}]
\* gives "hi there".
CoerceTextRule ==
    pc = "done" =>
        /\ raw.kind = "str" => resolved = raw.s
        /\ raw.kind = "list" => resolved = JoinedUpTo(raw.segs, Len(raw.segs))
        /\ raw.kind = "other" => resolved = ""
        /\ raw = ListField(<<Seg("dict", "hi"), Seg("dict", " there")>>) =>
              resolved = "hi there"

\* A list holding textual and other segments has been joined.
CoerceTextWitness ==
    /\ pc = "done"
    /\ raw.kind = "list"
    /\ \E i, j, k \in 1..Len(raw.segs) :
          /\ i < j /\ j < k
          /\ raw.segs[i].kind = "dict"
          /\ raw.segs[j].kind = "dict_other"
          /\ raw.segs[k].kind = "str"
    /\ resolved = "hia"

----------------------------------------------------------------------------
\* the source without the records that are no message or have no
\* parseable date
WithoutInvalid(src) ==
    [src EXCEPT !.files =
        [n \in DOMAIN src.files |->
            [src.files[n] EXCEPT !.records = SelectSeq(@, ValidRecord)]]]

\* C17: in the JSON adapter a record whose type is not "message" or whose
\* date is missing or not parseable gives no message and no error, and
\* the messages of the other records are those the source gives without
\* that record.
InvalidRecordsDropped ==
    (pc = "done" /\ adapter = "json") =>
        /\ \A i \in 1..Len(origins) :
              ValidRecord(source.files[origins[i].file].records[origins[i].rec])
        /\ msg_list = Messages(get_mymessages_from_export(
                          WithoutInvalid(source), your_name, target_name).pairs)
        /\ log = get_mymessages_from_export(
                          WithoutInvalid(source), your_name, target_name).log

\* A record without parseable date stood between two valid records, both
\* of which became messages.
InvalidRecordsDroppedWitness ==
    /\ pc = "done"
    /\ adapter = "json"
    /\ source.kind = "file"
    /\ Len(msg_list) = 2
    /\ LET recs == source.files["export.json"].records
       IN  /\ Len(recs) = 3
           /\ ValidRecord(recs[1])
           /\ recs[2].date.kind = "bad"
           /\ ValidRecord(recs[3])

----------------------------------------------------------------------------
\* the file cannot be read or parsed
Unreadable(c) == c.state \in {"invalid", "unreadable"}

\* the source without the files that cannot be read
ReadableOnly(src) ==
    [src EXCEPT !.files =
        [n \in DOMAIN src.files |->
            IF Unreadable(src.files[n]) THEN Content("absent", <<>>)
            ELSE src.files[n]]]

\* the output of the adapter of the run on the source src
OutputOn(src) ==
    IF adapter = "json"
    THEN Messages(get_mymessages_from_export(src, your_name, target_name).pairs)
    ELSE Messages(get_mymessages_from_html(src, your_name, target_name).pairs)

\* a block the HTML adapter turns into a message
ValidBlock(b) ==
    /\ "service" \notin b.classes
    /\ b.date.div
    /\ (IF b.date.title.kind # "empty" THEN b.date.title
        ELSE b.date.shown).kind = "time"

\* the record at index j of a file in state st gives a message
GivesMessage(c, j) ==
    IF adapter = "json"
    THEN c.state \in {"dict", "list"} /\ ValidRecord(c.records[j])
    ELSE c.state = "ok" /\ ValidBlock(c.records[j])

\* C18: a shard file that cannot be read or parsed is skipped with a
\* logged warning and every other shard is still parsed, so the output is
\* the output over the readable shards; a source without any recognised
\* file gives an empty output.  Nothing is raised.
UnreadableShardsSkipped ==
    pc = "done" =>
        /\ msg_list = OutputOn(ReadableOnly(source))
        /\ \A n \in DOMAIN source.files :
              /\ Unreadable(source.files[n]) =>
                    \E l \in 1..Len(log) : log[l] = <<"Failed to read", n>>
              /\ \A j \in 1..Len(source.files[n].records) :
                    GivesMessage(source.files[n], j) =>
                        \E i \in 1..Len(origins) :
                            origins[i].file = n /\ origins[i].rec = j
        /\ (\A n \in DOMAIN source.files : source.files[n].state = "absent")
              => (msg_list = <<>> /\ Len(log) = 1)

\* The first file read could not be read and a file read after it gave
\* messages.
UnreadableShardsWitness ==
    /\ pc = "done"
    /\ LET names == IF adapter = "json" THEN JsonFiles(source)
                    ELSE _get_html_files(source)
       IN  /\ Len(names) >= 2
           /\ Unreadable(source.files[names[1]])
    /\ log[1][1] = "Failed to read"
    /\ Len(msg_list) >= 2
    /\ \A i \in 1..Len(origins) : origins[i].pos > 1

----------------------------------------------------------------------------
\* the conversation-level file main wrote
ConvoCsv == written[1].content

ConvoCsvWritten ==
    /\ Len(written) >= 1
    /\ written[1].file = "sentiment_topics_by_conversation.csv"

\* the runs of which at least one text is long enough to be scored
ScoredRuns == {i \in 1..Len(convos) : normalize_texts(convos[i]) # <<>>}

\* C19: the conversation-level output of main has exactly one row for every
\* run returned by split_into_conversations: as many rows as runs.
RowPerRun ==
    ConvoCsvWritten => Len(ConvoCsv) = Len(convos)

\* what the loop does: one row for every run that has a text of at least
\* MinLen characters, none for the other runs
RowPerScoredRun ==
    ConvoCsvWritten =>
        /\ Len(ConvoCsv) = Cardinality(ScoredRuns)
        /\ \A j \in 1..Len(ConvoCsv) :
               ConvoCsv[j].conversation_id + 1 \in ScoredRuns

\* a file was written although a run has no row
RunWithoutRow ==
    /\ ConvoCsvWritten
    /\ \E i \in 1..Len(convos) : i \notin ScoredRuns

----------------------------------------------------------------------------
\* twice the value of a position (an int, or a float with halves)
Twice(v) == (2 * v.num) \div v.den

\* the end offset of the sequence: last message date minus first, in days
EndOffset == plot_msgs[Len(plot_msgs)].date - plot_msgs[1].date

\* C20: _get_plot_data places x for bucket 0 at its own start offset, x for
\* every interior bucket at the midpoint of its start offset and the next
\* bucket's, and x for the last bucket, when there is more than one bucket,
\* at the midpoint of its start offset and the end offset of the sequence.
PlotPositions ==
    pc = "done" =>
        LET n == Len(plot_xticks)
        IN  /\ n >= 1
            /\ plot_x[1] = IntValue(plot_xticks[1])
            /\ \A i \in 2..(n - 1) :
                   /\ plot_x[i].den = 2
                   /\ Twice(plot_x[i]) = plot_xticks[i] + plot_xticks[i + 1]
            /\ n > 1 =>
                   /\ plot_x[n].den = 2
                   /\ Twice(plot_x[n]) = plot_xticks[n] + EndOffset

\* four or more buckets, the sequence ending inside the last one
PlotPositionsWitness ==
    /\ pc = "done"
    /\ Len(plot_xticks) >= 4
    /\ Len(plot_x) = Len(plot_xticks)
    /\ plot_xticks[2] > 0
    /\ EndOffset > plot_xticks[Len(plot_xticks)]
    /\ plot_x[2] # plot_x[3]

----------------------------------------------------------------------------
\* the days between the sequence start and the first bucket boundary, the
\* second tick
FirstBoundary == ticks.xticks[2]

CropLimit == IF ticks.xlabel = "Month" THEN MonthCropDays ELSE WeekCropDays

FirstLabelRule ==
    IF Len(ticks.xticks) >= 2 /\ FirstBoundary < CropLimit
    THEN ticks.xticks_labels[1] = BlankLabel
    ELSE ticks.xticks_labels[1] # BlankLabel

\* C21: with cropping enabled, the first bucket's label is blank whenever
\* the first bucket boundary falls fewer than 10 days (monthly) or 3 days
\* (weekly) after the sequence start, for every number of buckets;
\* otherwise the first label is kept.
FirstLabelBlankedWhenShort ==
    (pc = "done" /\ crop) => FirstLabelRule

\* the rule holds whenever there are not exactly two weekly ticks
FirstLabelBlankedUnlessTwoWeeks ==
    (pc = "done" /\ crop
        /\ ~(ticks.xlabel = "week" /\ Len(ticks.xticks) = 2)) => FirstLabelRule

\* two weekly ticks, the second fewer than 3 days after the start
TwoWeeksShortFirst ==
    /\ pc = "done" /\ crop
    /\ ticks.xlabel = "week"
    /\ Len(ticks.xticks) = 2
    /\ FirstBoundary < WeekCropDays

----------------------------------------------------------------------------
MediaFlagNames ==
    {"has_photo", "has_voice", "has_audio", "has_video_message",
     "has_video_file", "has_video", "has_sticker"}

\* C22: a message rebuilt from its persisted record has the record's
\* is_link value and media flags as stored, not recomputed, even when
\* is_link disagrees with the text; is_link is computed from the text only
\* when the record has no is_link value.
ReloadKeepsStored ==
    pc = "done" =>
        \A i \in 1..Len(stored) :
            /\ stored[i].is_link # JNull =>
                   loaded[i].is_link = FlagFromJson(stored[i].is_link)
            /\ stored[i].is_link = JNull =>
                   loaded[i].is_link = PyBool(stored[i].text.v \in LinkTexts)
            /\ \A k \in MediaFlagNames :
                   loaded[i][k] = FlagFromJson(stored[i][k])

\* a record rebuilt whose stored is_link disagrees with its text
ReloadKeepsStoredWitness ==
    /\ pc = "done"
    /\ stored[1].is_link = JTrue
    /\ stored[1].text.v \notin LinkTexts
    /\ loaded[1].is_link = True
    /\ stored[1].has_video = JTrue

----------------------------------------------------------------------------
\* the files the adapter of the run goes through, in order
FilesRead ==
    IF adapter = "json" THEN JsonFiles(source) ELSE _get_html_files(source)

\* the raw records of the files names[k..] the adapter parsed
RECURSIVE RawSeenFrom(_, _)
RawSeenFrom(names, k) ==
    IF k > Len(names) THEN 0
    ELSE (IF \/ adapter = "json"
                /\ source.files[names[k]].state \in {"dict", "list"}
             \/ adapter = "html" /\ source.files[names[k]].state = "ok"
          THEN Len(source.files[names[k]].records) ELSE 0)
             + RawSeenFrom(names, k + 1)

RawSeen == RawSeenFrom(FilesRead, 1)

\* C23: every successful adapter call logs a line reporting both the number
\* of records parsed and the number dropped, parsed + dropped being the
\* number of raw records seen; dropped records cause no error.
LogReportsParsedAndDropped ==
    (pc = "done" /\ FilesRead # <<>>) =>
        \E l \in 1..Len(log) :
            /\ log[l][1] = "messages parsed"
            /\ Len(log[l]) = 3
            /\ log[l][2] = Len(msg_list)
            /\ log[l][2] + log[l][3] = RawSeen

\* the line logged reports the number of messages parsed, and nothing else;
\* no call raises
LogReportsParsedOnly ==
    /\ pc # "raised"
    /\ (pc = "done" /\ FilesRead # <<>>) =>
           /\ log[Len(log)] = <<"messages parsed", Len(msg_list)>>
           /\ Len(msg_list) <= RawSeen

\* a call that dropped a record
RecordDropped ==
    /\ pc = "done"
    /\ FilesRead # <<>>
    /\ Len(msg_list) < RawSeen

----------------------------------------------------------------------------
MediaKinds ==
    {"photo", "voice", "audio", "video_message", "video_file", "sticker"}

\* the flag of a media kind on the message built
KindFlag(kind) ==
    CASE kind = "photo" -> msg[1].has_photo
      [] kind = "voice" -> msg[1].has_voice
      [] kind = "audio" -> msg[1].has_audio
      [] kind = "video_message" -> msg[1].has_video_message
      [] kind = "video_file" -> msg[1].has_video_file
      [] kind = "sticker" -> msg[1].has_sticker

\* the raw record carries the explicit structural marker of the kind
KindMarker(kind) ==
    IF adapter = "json"
    THEN (CASE kind = "photo" -> "photo"
            [] kind = "voice" -> "voice_message"
            [] kind = "audio" -> "audio_file"
            [] kind = "video_message" -> "video_message"
            [] kind = "video_file" -> "video_file"
            [] kind = "sticker" -> "sticker_emoji") \in raw.keys
    ELSE (CASE kind = "photo" -> {"media_photo"}
            [] kind = "voice" -> {"media_voice_message"}
            [] kind = "audio" -> {"media_audio_file", "media_audio"}
            [] kind = "video_message" -> {"media_video_message"}
            [] kind = "video_file" -> {"media_video_file"}
            [] kind = "sticker" -> {"media_sticker"}) \cap raw.divs # {}

\* the file name of a JSON record ends, whatever its case, with an
\* extension of the kind's set
KindExtension(kind) ==
    /\ adapter = "json"
    /\ kind \in {"audio", "video_file"}
    /\ raw.file \notin {FileAbsent, FileNotStr}
    /\ Lower(raw.file) \in (IF kind = "audio" THEN AudioExts ELSE VideoExts)

\* the title of an HTML block, lowered, holds the hint of the kind:
\* "voice message" or "video message" anywhere, "audio file" anywhere or
\* "audio" at its start
KindTitle(kind) ==
    /\ adapter = "html"
    /\ raw.title # Nothing
    /\ LET t == TitleLower(The(raw.title))
       IN  CASE kind = "voice" -> t = "voice message"
             [] kind = "video_message" -> t = "video message"
             [] kind = "audio" -> t \in {"audio file", "audio.ogg"}
             [] OTHER -> FALSE

PrecedenceFor(kind) ==
    /\ KindMarker(kind) => KindFlag(kind) = True
    /\ (~KindMarker(kind) /\ KindExtension(kind)) => KindFlag(kind) = True
    /\ (~KindMarker(kind) /\ ~KindExtension(kind) /\ KindTitle(kind)) =>
           KindFlag(kind) = True

----------------------------------------------------------------------------
\* the raw record is one the adapter turns into a message
ValidRaw == IF adapter = "json" THEN ValidRecord(raw) ELSE ValidBlock(raw)

\* no media marker, no matching file extension, no title hint
NoMediaSignal ==
    /\ \A kind \in MediaKinds :
           ~KindMarker(kind) /\ ~KindExtension(kind) /\ ~KindTitle(kind)
    /\ adapter = "json" =>
           (raw.file \in {FileAbsent, FileNotStr} \/ Lower(raw.file) # ".webp")
    /\ adapter = "html" => "media_video" \notin raw.divs

\* C25: a raw message record with no recognised media marker, no matching
\* file extension (also when the file field is not a string) and no title
\* hint is converted without error into a message whose seven media flags
\* are all false.
NoSignalNoFlags ==
    (pc = "done" /\ ValidRaw /\ NoMediaSignal) =>
        /\ msg # <<>>
        /\ \A k \in MediaFlagNames : msg[1][k] = False

\* a JSON record whose file field is not a string
NoSignalNoFlagsWitness ==
    /\ pc = "done"
    /\ adapter = "json"
    /\ ValidRaw /\ NoMediaSignal
    /\ raw.file = FileNotStr
    /\ msg # <<>>
    /\ msg[1].has_video = False

----------------------------------------------------------------------------
\* The texts of SpecSample are their own indices (texts = range(count)), so
\* the list returned is the list of the indices selected.

\* C26: when count > cap >= 1 the indices sample_texts selects are strictly
\* increasing, start at 0 and stay below count: no item is selected twice
\* and the input order is kept.
SampleIndicesIncrease ==
    (pc = "done" /\ Len(texts) > max_n /\ max_n >= 1) =>
        /\ sampled[1] = 0
        /\ \A i \in 1..(Len(sampled) - 1) : sampled[i] < sampled[i + 1]
        /\ \A i \in 1..Len(sampled) : sampled[i] < Len(texts)

\* a sample whose stride is not whole: 7 of 10
SampleIndicesWitness ==
    /\ pc = "done"
    /\ Len(texts) = 10
    /\ max_n = 7
    /\ Len(sampled) = 7
    /\ sampled[7] = 8

\* C27: for every text list and every cap >= 0, sample_texts returns
\* without raising a list of exactly min(count, cap) items.
SampleNeverRaises ==
    (pc # "start" /\ max_n >= 0) =>
        /\ pc = "done"
        /\ Len(sampled) = Min(Len(texts), max_n)

\* the same for a cap of at least 1
SampleSizeFromOne ==
    (pc # "start" /\ max_n >= 1) =>
        /\ pc = "done"
        /\ Len(sampled) = Min(Len(texts), max_n)

\* a cap of 0 on a list that is not empty
SampleZeroCap ==
    /\ pc = "raised"
    /\ max_n = 0
    /\ Len(texts) > 0

----------------------------------------------------------------------------
\* C28: for n >= 1 buckets _get_plot_data returns exactly n x-positions, one
\* per group of y; the x-positions are non-decreasing; every bucket start
\* offset is clamped to be >= 0.
PlotShape ==
    pc = "done" =>
        /\ Len(plot_y) >= 1
        /\ Len(plot_x) = Len(plot_y)
        /\ \A i \in 1..(Len(plot_x) - 1) :
               Twice(plot_x[i]) <= Twice(plot_x[i + 1])
        /\ \A k \in 1..Len(plot_xticks) : plot_xticks[k] >= 0
        /\ plot_x[1].num >= 0

\* three or more buckets, the first one starting before the first message
PlotShapeWitness ==
    /\ pc = "done"
    /\ Len(plot_y) >= 3
    /\ Len(plot_x) = Len(plot_y)
    /\ plot_msgs[1].date > WeekStart(plot_msgs[1].date)
    /\ plot_msgs[1].date > MonthStart(MonthOf(plot_msgs[1].date))
    /\ plot_xticks[1] = 0

----------------------------------------------------------------------------
\* the model invocations the rows computed so far have made
RECURSIVE RowInvocations(_)
RowInvocations(rs) ==
    IF rs = <<>> THEN 0
    ELSE InvocationsFor(Head(rs).num_texts_used) + RowInvocations(Tail(rs))

\* the run aborted inside the row loop
AbortedInRows == pc = "raised" /\ export_exists /\ idx < Len(convos)

\* C29: in main, if a model invocation raises while the rows are computed,
\* no output file has been written when the run aborts; the conversation
\* CSV is written only after every conversation has been aggregated, and
\* before the inference of the whole-chat rollup starts.
CsvAfterRowsBeforeRollup ==
    /\ AbortedInRows => written = <<>>
    /\ pc = "rows" => written = <<>>
    /\ (pc \in {"rollup", "done"} \/ (pc = "raised" /\ export_exists)) =>
           (Len(written) >= 1 =>
               /\ idx = Len(convos)
               /\ written[1].file = "sentiment_topics_by_conversation.csv"
               /\ Len(written[1].content) = Len(rows))
    /\ pc = "rollup" =>
           /\ Len(written) = 1
           /\ invocations = RowInvocations(rows)

\* a model invocation raised in a later conversation, after a row was made
AbortedInRowsWitness ==
    /\ AbortedInRows
    /\ raise_at > 0
    /\ invocations = raise_at
    /\ idx >= 1
    /\ rows # <<>>
    /\ written = <<>>

----------------------------------------------------------------------------
\* the texts of a run that are long enough to be scored
LongTexts(conv) == {k \in 1..Len(conv) : conv[k].text.len >= MinLen}

\* a row of the conversation file describes the run its id names
RowOfItsRun(r) ==
    /\ r.conversation_id + 1 \in 1..Len(convos)
    /\ LET conv == convos[r.conversation_id + 1]
       IN  /\ r.start = conv[1].date
           /\ r.end = conv[Len(conv)].date
           /\ r.num_messages = Len(conv)
           /\ r.num_texts_used <= Cardinality(LongTexts(conv))
    /\ r.start <= r.end
    /\ r.duration_min.num >= 0

RowIdsIncrease ==
    \A j \in 1..(Len(ConvoCsv) - 1) :
        ConvoCsv[j].conversation_id < ConvoCsv[j + 1].conversation_id

\* C30: every row main writes has
\* 1 <= num_texts_used <= min(max_per_convo, num_messages), start <= end and
\* duration_min >= 0; its conversation_id is the index of its run in the
\* segmenter's output, so the ids are strictly increasing in row order;
\* only texts whose stripped length is at least 5 are counted.
RowsWellFormed ==
    ConvoCsvWritten =>
        /\ \A j \in 1..Len(ConvoCsv) :
               /\ RowOfItsRun(ConvoCsv[j])
               /\ 1 <= ConvoCsv[j].num_texts_used
               /\ ConvoCsv[j].num_texts_used
                      <= Min(max_per_convo, ConvoCsv[j].num_messages)
        /\ RowIdsIncrease

\* the same for a cap that is not negative
RowsWellFormedFromZero ==
    max_per_convo >= 0 => RowsWellFormed

\* under a negative cap every row is of its run and the ids increase, and
\* no text is used
RowsOfNegativeCap ==
    (ConvoCsvWritten /\ max_per_convo < 0) =>
        /\ \A j \in 1..Len(ConvoCsv) :
               /\ RowOfItsRun(ConvoCsv[j])
               /\ ConvoCsv[j].num_texts_used = 0
        /\ RowIdsIncrease

\* two rows written under a negative cap
RowWithoutTexts ==
    /\ ConvoCsvWritten
    /\ max_per_convo < 0
    /\ Len(ConvoCsv) >= 2

----------------------------------------------------------------------------
\* C5: the runs returned by split_into_conversations are all non-empty and
\* their concatenation, in order, is the input; an empty input gives no run.
SplitCoverage ==
    pc = "done" =>
        /\ \A k \in 1..Len(convos) : convos[k] # <<>>
        /\ Concat(convos) = messages
        /\ (messages = <<>> => convos = <<>>)

SplitCoverageWitness ==
    /\ pc = "done"
    /\ Len(messages) = 4
    /\ Len(convos) = 2
    /\ Len(convos[1]) = 2

\* The position in the input of the k-th run's first message.
RunStart(k) == convos[k][1].text

\* The spec's example: offsets 0, 10, 50 minutes with a 30 minute threshold.
SplitExample ==
    (/\ pc = "done"
     /\ gap_minutes = 30
     /\ [i \in 1..Len(messages) |-> messages[i].date] = <<0, 600, 3000>>)
        => convos = << <<messages[1], messages[2]>>, <<messages[3]>> >>

\* C6: a run boundary lies between two adjacent messages exactly when their
\* time difference is strictly greater than the threshold (a difference equal
\* to the threshold keeps them in one run), so every run is maximal; offsets
\* 0, 10, 50 minutes with a threshold of 30 give [[t0, t10], [t50]].
SplitBoundaryIffGap ==
    /\ SplitExample
    /\ pc = "done" =>
          \A i \in 1..(Len(messages) - 1) :
              (\E k \in 2..Len(convos) : RunStart(k) = i + 1)
                  <=> (messages[i + 1].date - messages[i].date
                          > gap_minutes * SecondsPerMinute)

SplitBoundaryWitness ==
    /\ pc = "done"
    /\ gap_minutes = 1
    /\ Len(messages) = 3
    /\ messages[2].date - messages[1].date = 60
    /\ messages[3].date - messages[2].date = 61
    /\ Len(convos) = 2
    /\ Len(convos[1]) = 2

====
